---- MODULE Spec2Model ----
(***************************************************************************)
(* Model of the example store of generalexam                               *)
(* (machine_learning/learning_examples_io.py): the NetCDF store file       *)
(* written by write_file and read by read_file, the example identifiers    *)
(* (create_example_id, example_id_to_metadata) and the identifier lookup   *)
(* (find_example_ids).                                                     *)
(*                                                                         *)
(* Conventions.                                                            *)
(*  - A Python string is a sequence of one-character strings, compared by  *)
(*    code point as Python compares str.                                   *)
(*  - Python's None is the empty tuple <<>>, a present optional value x is *)
(*    <<x>>.                                                               *)
(*  - Array indices are 0-based as in the source; Item(a, i) is a[i].      *)
(*  - A call's outcome is a record whose field "raised" is "none" or the   *)
(*    name of the exception.                                               *)
(***************************************************************************)
EXTENDS Integers, Sequences, FiniteSets, TLC

VARIABLES
    file,      \* the store file at netcdf_file_name (NoFile when absent)
    before,    \* the store file as it was when the latest call began
    written,   \* the example dictionaries of the successful writes since the file was created
    call,      \* the latest call on the store: its name and arguments
    result,    \* what that call returned or raised
    lookup,    \* the frame of a running find_example_ids call
    enc,       \* identifier encoding: the triples, their ids, the decoded triples
    finder,    \* a find_many_files call: the directory listing, the arguments, the outcome
    augmenter, \* a _do_data_augmentation call: the batch, the option dictionary, the outcome
    factory,   \* a create_examples call: the files on disk, the arguments, the outcome
    generator, \* a batch generator: its arguments, its local variables, what it yielded
    manyreader \* a read_specific_examples_many_files call: the files, the request, the outcome

vars == <<file, before, written, call, result, lookup, enc, finder, augmenter, factory,
          generator, manyreader>>

None == <<>>
Some(x) == <<x>>

(***************************************************************************)
(* Sequences and 0-based arrays                                            *)
(***************************************************************************)
Range(s) == {s[i] : i \in DOMAIN s}

RECURSIVE SeqsUpTo(_, _)
SeqsUpTo(S, n) ==
    IF n = 0 THEN {<<>>}
    ELSE LET shorter == SeqsUpTo(S, n - 1)
         IN  shorter \cup {Append(s, x) : s \in {t \in shorter : Len(t) = n - 1}, x \in S}

Item(a, i) == a[i + 1]

\* numpy.array(...): the array with every element computed.
Array(a) == a \o <<>>

Max(a, b) == IF a >= b THEN a ELSE b
Abs(x) == IF x < 0 THEN -x ELSE x

(***************************************************************************)
(* Python strings                                                          *)
(***************************************************************************)
CodePoint(c) ==
    CASE c = "-" -> 45
      [] c = "0" -> 48 [] c = "1" -> 49 [] c = "2" -> 50 [] c = "3" -> 51
      [] c = "4" -> 52 [] c = "5" -> 53 [] c = "6" -> 54 [] c = "7" -> 55
      [] c = "8" -> 56 [] c = "9" -> 57
      [] c = "_" -> 95
      [] c = "c" -> 99  [] c = "e" -> 101 [] c = "i" -> 105 [] c = "l" -> 108
      [] c = "m" -> 109 [] c = "n" -> 110 [] c = "o" -> 111 [] c = "r" -> 114
      [] c = "t" -> 116 [] c = "u" -> 117 [] c = "w" -> 119

DigitChars == <<"0", "1", "2", "3", "4", "5", "6", "7", "8", "9">>

IsDigit(c) == c \in Range(DigitChars)

DigitValue(c) == CHOOSE d \in 0..9 : DigitChars[d + 1] = c

\* str < str: the first differing character decides, a proper prefix is smaller.
StrLess(a, b) ==
    LET n == IF Len(a) <= Len(b) THEN Len(a) ELSE Len(b)
        differing == {i \in 1..n : a[i] # b[i]}
    IN  IF differing = {} THEN Len(a) < Len(b)
        ELSE LET first == CHOOSE i \in differing : \A j \in differing : i <= j
             IN  CodePoint(a[first]) < CodePoint(b[first])

\* The decimal digits of n >= 0, most significant first.
RECURSIVE Digits(_)
Digits(n) ==
    IF n < 10 THEN <<DigitChars[n + 1]>>
    ELSE Append(Digits(n \div 10), DigitChars[(n % 10) + 1])

RECURSIVE Zeros(_)
Zeros(k) == IF k <= 0 THEN <<>> ELSE <<"0">> \o Zeros(k - 1)

\* '{:0<width>d}'.format(n): the sign, then zeros up to the width, then the
\* digits; a number wider than the field is written in full.
FormatZeroPaddedNoPad(n, width) ==
    IF n < 0 THEN <<"-">> \o Digits(-n) ELSE Digits(n)

FormatZeroPadded(n, width) ==
    IF n < 0
    THEN <<"-">> \o Zeros(width - 1 - Len(Digits(-n))) \o Digits(-n)
    ELSE Zeros(width - Len(Digits(n))) \o Digits(n)

\* s.startswith(sub)
StartsWith(s, sub) ==
    /\ Len(sub) <= Len(s)
    /\ SubSeq(s, 1, Len(sub)) = sub

\* s.replace(sub, ''): every non-overlapping occurrence, left to right.
RECURSIVE RemoveAll(_, _)
RemoveAll(s, sub) ==
    IF s = <<>> THEN <<>>
    ELSE IF StartsWith(s, sub) THEN RemoveAll(SubSeq(s, Len(sub) + 1, Len(s)), sub)
    ELSE <<Head(s)>> \o RemoveAll(Tail(s), sub)

\* s.split(sep) for a one-character separator: the list of words.
RECURSIVE Split(_, _)
Split(s, sep) ==
    IF s = <<>> THEN <<<<>>>>
    ELSE LET rest == Split(Tail(s), sep)
         IN  IF Head(s) = sep THEN <<<<>>>> \o rest
             ELSE <<<<Head(s)>> \o Head(rest)>> \o Tail(rest)

\* int(s) accepts an optional sign followed by at least one digit.
IsIntLiteral(s) ==
    LET body == IF s # <<>> /\ Head(s) = "-" THEN Tail(s) ELSE s
    IN  /\ body # <<>>
        /\ \A i \in DOMAIN body : IsDigit(body[i])

RECURSIVE DigitsToNat(_)
DigitsToNat(ds) ==
    IF ds = <<>> THEN 0
    ELSE 10 * DigitsToNat(SubSeq(ds, 1, Len(ds) - 1)) + DigitValue(ds[Len(ds)])

ParseInt(s) == IF Head(s) = "-" THEN -DigitsToNat(Tail(s)) ELSE DigitsToNat(s)

(***************************************************************************)
(* Example identifiers                                                     *)
(***************************************************************************)
TimeWord == <<"t", "i", "m", "e">>
RowWord == <<"r", "o", "w">>
ColumnWord == <<"c", "o", "l", "u", "m", "n">>

TimeWidth == 10
IndexWidth == 3

\* 'time{0:010d}_row{1:03d}_column{2:03d}'.format(...)
create_example_id(valid_time_unix_sec, row_index, column_index) ==
    TimeWord \o FormatZeroPadded(valid_time_unix_sec, TimeWidth) \o <<"_">>
        \o RowWord \o FormatZeroPadded(row_index, IndexWidth) \o <<"_">>
        \o ColumnWord \o FormatZeroPadded(column_index, IndexWidth)

create_example_ids(valid_times_unix_sec, row_indices, column_indices) ==
    Array([i \in DOMAIN valid_times_unix_sec |->
        create_example_id(valid_times_unix_sec[i], row_indices[i], column_indices[i])])

\* A mis-parse that returns the column where the row belongs and vice versa.
example_id_to_metadata_swapped(example_id_string) ==
    LET words == Split(example_id_string, "_")
    IN  [raised |-> "none",
         value |-> <<ParseInt(RemoveAll(words[1], TimeWord)),
                     ParseInt(RemoveAll(words[3], ColumnWord)),
                     ParseInt(RemoveAll(words[2], RowWord))>>]

example_id_to_metadata(example_id_string) ==
    LET words == Split(example_id_string, "_")
    IN  IF Len(words) # 3 THEN [raised |-> "AssertionError", value |-> <<>>]
        ELSE LET time_digits == RemoveAll(words[1], TimeWord)
                 row_digits == RemoveAll(words[2], RowWord)
                 column_digits == RemoveAll(words[3], ColumnWord)
             IN  IF \A w \in {time_digits, row_digits, column_digits} : IsIntLiteral(w)
                 THEN [raised |-> "none",
                       value |-> <<ParseInt(time_digits), ParseInt(row_digits),
                                   ParseInt(column_digits)>>]
                 ELSE [raised |-> "ValueError", value |-> <<>>]

(***************************************************************************)
(* find_example_ids                                                        *)
(***************************************************************************)
\* numpy.argsort of an array of str: the 0-based indices in ascending order
\* of the strings (ties, never reached past the uniqueness check, by index).
argsort(a) ==
    LET rank == Array([i \in DOMAIN a |->
                    Cardinality({j \in DOMAIN a :
                        \/ StrLess(a[j], a[i])
                        \/ a[j] = a[i] /\ j < i})])
    IN  Array([p \in DOMAIN a |-> (CHOOSE i \in DOMAIN a : rank[i] = p - 1) - 1])

\* numpy.searchsorted(a, v, side='left') on a sorted array: binary search for
\* the leftmost position at which v can be inserted.
RECURSIVE BinarySearchLeft(_, _, _, _)
BinarySearchLeft(a, v, lo, hi) ==
    IF lo >= hi THEN lo
    ELSE LET mid == (lo + hi) \div 2
         IN  IF StrLess(Item(a, mid), v)
             THEN BinarySearchLeft(a, v, mid + 1, hi)
             ELSE BinarySearchLeft(a, v, lo, mid)

searchsorted(a, values) ==
    Array([k \in DOMAIN values |-> BinarySearchLeft(a, values[k], 0, Len(a))])

\* a[indices] with an integer index array: negative indices count from the
\* end, an index outside [-len, len) is an IndexError.
InBounds(a, i) == i >= -Len(a) /\ i < Len(a)
Take(a, indices) ==
    Array([k \in DOMAIN indices |->
        IF indices[k] < 0 THEN a[Len(a) + indices[k] + 1] ELSE a[indices[k] + 1]])

NoMessage == [kind |-> "none", ids |-> <<>>]

\* The frame of a call: arguments, locals, and the outcome once there is one.
LookupFrame(all_id_strings, desired_id_strings, allow_missing) ==
    [pc |-> "check_unique",
     all_id_strings |-> all_id_strings,
     desired_id_strings |-> desired_id_strings,
     allow_missing |-> allow_missing,
     sort_indices |-> None,
     desired_indices |-> <<>>,
     raised |-> "none",
     message |-> NoMessage]

\* A uniqueness check that lets every list through.
CheckUniqueSkipped(f) == [f EXCEPT !.pc = "search"]

\* len(set(all_id_strings)) != len(all_id_strings) raises.
CheckUnique(f) ==
    IF Cardinality(Range(f.all_id_strings)) # Len(f.all_id_strings)
    THEN [f EXCEPT !.pc = "done", !.raised = "ValueError",
                   !.message = [kind |-> "duplicates", ids |-> <<>>]]
    ELSE [f EXCEPT !.pc = "search"]

\* argsort, searchsorted, the clamp of the positions to [0, N - 1], and the
\* indexing of sort_indices by the clamped positions.
Search(f) ==
    LET all == f.all_id_strings
        sort_indices == argsort(all)
        sorted == Take(all, sort_indices)
        found == searchsorted(sorted, f.desired_id_strings)
        nonneg == Array([k \in DOMAIN found |-> IF found[k] < 0 THEN 0 ELSE found[k]])
        desired_subindices ==
            Array([k \in DOMAIN nonneg |->
                IF nonneg[k] >= Len(all) THEN Len(all) - 1 ELSE nonneg[k]])
    IN  IF \E k \in DOMAIN desired_subindices :
                ~InBounds(sort_indices, desired_subindices[k])
        THEN [f EXCEPT !.pc = "done", !.sort_indices = Some(sort_indices),
                       !.raised = "IndexError"]
        ELSE [f EXCEPT !.pc = "compare", !.sort_indices = Some(sort_indices),
                       !.desired_indices = Take(sort_indices, desired_subindices)]

\* A comparison whose error lists every desired identifier.
CompareListsAll(f) ==
    LET desired == f.desired_id_strings
        found_strings == Take(f.all_id_strings, f.desired_indices)
        missing_flags == Array([k \in DOMAIN desired |-> found_strings[k] # desired[k]])
    IN  IF f.allow_missing
        THEN [f EXCEPT !.pc = "done",
                       !.desired_indices =
                           Array([k \in DOMAIN desired |->
                               IF missing_flags[k] THEN -1 ELSE f.desired_indices[k]])]
        ELSE IF found_strings # desired
        THEN [f EXCEPT !.pc = "done", !.raised = "ValueError",
                       !.desired_indices = <<>>,
                       !.message = [kind |-> "missing", ids |-> desired]]
        ELSE [f EXCEPT !.pc = "done"]

\* The comparison of the found strings with the desired ones.
Compare(f) ==
    LET desired == f.desired_id_strings
        found_strings == Take(f.all_id_strings, f.desired_indices)
        missing_flags == Array([k \in DOMAIN desired |-> found_strings[k] # desired[k]])
    IN  IF f.allow_missing
        THEN [f EXCEPT !.pc = "done",
                       !.desired_indices =
                           Array([k \in DOMAIN desired |->
                               IF missing_flags[k] THEN -1 ELSE f.desired_indices[k]])]
        ELSE IF found_strings # desired
        THEN [f EXCEPT !.pc = "done", !.raised = "ValueError",
                       !.desired_indices = <<>>,
                       !.message =
                           [kind |-> "missing",
                            ids |-> SelectSeq(desired,
                                       LAMBDA s : \E k \in DOMAIN desired :
                                           desired[k] = s /\ missing_flags[k])]]
        ELSE [f EXCEPT !.pc = "done"]

LookupStep(f) ==
    CASE f.pc = "check_unique" -> CheckUnique(f)
      [] f.pc = "search" -> Search(f)
      [] f.pc = "compare" -> Compare(f)
      [] OTHER -> f

\* The whole call: the frame when the function returns or raises.
find_example_ids(all_id_strings, desired_id_strings, allow_missing) ==
    LookupStep(LookupStep(LookupStep(
        LookupFrame(all_id_strings, desired_id_strings, allow_missing))))

(***************************************************************************)
(* The store file                                                          *)
(***************************************************************************)
PREDICTOR_MATRIX_KEY == "predictor_matrix"
TARGET_MATRIX_KEY == "target_matrix"
VALID_TIMES_KEY == "target_times_unix_sec"
ROW_INDICES_KEY == "row_indices"
COLUMN_INDICES_KEY == "column_indices"
FIRST_NORM_PARAM_KEY == "first_normalization_param_matrix"
SECOND_NORM_PARAM_KEY == "second_normalization_param_matrix"

MAIN_KEYS ==
    <<PREDICTOR_MATRIX_KEY, TARGET_MATRIX_KEY, VALID_TIMES_KEY, ROW_INDICES_KEY,
      COLUMN_INDICES_KEY, FIRST_NORM_PARAM_KEY, SECOND_NORM_PARAM_KEY>>

FLOAT32_KEYS == {PREDICTOR_MATRIX_KEY, FIRST_NORM_PARAM_KEY, SECOND_NORM_PARAM_KEY}

\* int(1e11) in the source.  The times of a file are int32, so the source's
\* constant exceeds every stored time; it is held here at the largest int32.
LARGE_INTEGER == 2147483647

\* 1 / TOLERANCE: TOLERANCE is 1e-6.
TOLERANCE_INVERSE == 1000000
\* 1 / rtol for the rtol = 1e-5 that numpy.isclose uses when none is passed.
RTOL_INVERSE == 100000

\* Values up to 2^24 in magnitude are exact in float32.
FLOAT32_EXACT == 16777216

\* The gap between neighbouring float32 values at magnitude a.
RECURSIVE Float32Step(_)
Float32Step(a) == IF a < FLOAT32_EXACT THEN 1 ELSE 2 * Float32Step(a \div 2)

\* The float32 nearest to the number v (ties to the even mantissa): what a
\* float32 variable of the file holds after v is assigned to it.
ToFloat32(v) ==
    LET a == Abs(v)
        step == Float32Step(a)
        q == a \div step
        r == a % step
        m == IF 2 * r < step THEN q
             ELSE IF 2 * r > step THEN q + 1
             ELSE IF q % 2 = 0 THEN q ELSE q + 1
    IN  IF v < 0 THEN -(m * step) ELSE m * step

\* One row of an example-indexed array as the file's variable holds it:
\* float32 for the predictors and normalization parameters, int32 otherwise.
\* A predictor row is one example's M-by-N-by-C window; a row of normalization
\* parameters has C numbers.
StoredRow(key, row) ==
    IF key = PREDICTOR_MATRIX_KEY
    THEN Array([j \in DOMAIN row |->
            Array([k \in DOMAIN row[j] |->
                Array([c \in DOMAIN row[j][k] |-> ToFloat32(row[j][k][c])])])])
    ELSE IF key \in FLOAT32_KEYS THEN Array([c \in DOMAIN row |-> ToFloat32(row[c])])
    ELSE row

StoredRows(key, rows) == Array([i \in DOMAIN rows |-> StoredRow(key, rows[i])])

\* numpy.isclose(a, b, atol=TOLERANCE) is |a - b| <= atol + rtol * |b|.
\* Distances are counted in half metres, so that with A = 2a and B = 2b it is
\* |A - B| <= (2 + (TOLERANCE_INVERSE / RTOL_INVERSE) * |B|) / TOLERANCE_INVERSE.
isclose(a, b) ==
    Abs(a - b) <= (2 + (TOLERANCE_INVERSE \div RTOL_INVERSE) * Abs(b)) \div TOLERANCE_INVERSE

NoFile == [exists |-> FALSE]

NumExamples(f) == Len(f.variables[VALID_TIMES_KEY])

NoResult == [raised |-> "none", message |-> NoMessage, value |-> None]
Raise(kind) == [raised |-> kind, message |-> NoMessage, value |-> None]

\* variable[start:start + len(values), ...] = values on a variable of the
\* unlimited example dimension (start is never past the variable's end).
WriteSliceFromZero(variable, start, values) ==
    Array([i \in 1..Max(Len(variable), Len(values)) |->
        IF i <= Len(values) THEN values[i] ELSE variable[i]])

WriteSlice(variable, start, values) ==
    Array([i \in 1..Max(Len(variable), start + Len(values)) |->
        IF i > start /\ i <= start + Len(values) THEN values[i - start]
        ELSE variable[i]])

\* The first of the append's assertions that fails, "none" when all hold.
FailedAssertionNoMask(f, example_dict) ==
    IF ~isclose(f.dilation_distance_metres, example_dict.dilation_distance_metres)
    THEN "dilation_distance_metres"
    ELSE IF f.normalization_type_string # example_dict.normalization_type_string
    THEN "normalization_type_string"
    ELSE IF f.pressure_levels_mb # example_dict.pressure_levels_mb
    THEN "pressure_levels_mb"
    ELSE IF f.narr_predictor_names # example_dict.narr_predictor_names
    THEN "narr_predictor_names"
    ELSE "none"

FailedAssertion(f, example_dict) ==
    IF ~isclose(f.dilation_distance_metres, example_dict.dilation_distance_metres)
    THEN "dilation_distance_metres"
    ELSE IF f.normalization_type_string # example_dict.normalization_type_string
    THEN "normalization_type_string"
    ELSE IF f.pressure_levels_mb # example_dict.pressure_levels_mb
    THEN "pressure_levels_mb"
    ELSE IF f.narr_predictor_names # example_dict.narr_predictor_names
    THEN "narr_predictor_names"
    ELSE IF f.narr_mask_matrix # example_dict.narr_mask_matrix
    THEN "narr_mask_matrix"
    ELSE "none"

\* The append branch past the assertions: every main key gets the new rows
\* at [num_examples_orig, num_examples_orig + num_examples_to_add).
AppendRows(f, example_dict) ==
    LET num_examples_orig == NumExamples(f)
    IN  [f EXCEPT !.variables =
            [key \in Range(MAIN_KEYS) |->
                WriteSlice(f.variables[key], num_examples_orig,
                           StoredRows(key, example_dict[key]))]]

\* The create branch: mode 'w' makes a new dataset, replacing whatever file
\* there is at the path, and every attribute and variable is written.
CreateFile(example_dict) ==
    [exists |-> TRUE,
     dilation_distance_metres |-> example_dict.dilation_distance_metres,
     normalization_type_string |-> example_dict.normalization_type_string,
     narr_predictor_names |-> example_dict.narr_predictor_names,
     pressure_levels_mb |-> example_dict.pressure_levels_mb,
     narr_mask_matrix |-> example_dict.narr_mask_matrix,
     variables |-> [key \in Range(MAIN_KEYS) |-> StoredRows(key, example_dict[key])]]

\* A create that refuses to replace an existing file.
write_file_noclobber(f, example_dict, append_to_file) ==
    IF append_to_file
    THEN IF ~f.exists THEN [file |-> f, result |-> Raise("FileNotFoundError")]
         ELSE IF FailedAssertion(f, example_dict) # "none"
         THEN [file |-> f, result |-> Raise("AssertionError")]
         ELSE [file |-> AppendRows(f, example_dict), result |-> NoResult]
    ELSE IF f.exists THEN [file |-> f, result |-> Raise("FileExistsError")]
         ELSE [file |-> CreateFile(example_dict), result |-> NoResult]

\* write_file: the file afterwards and the call's outcome.
write_file(f, example_dict, append_to_file) ==
    IF append_to_file
    THEN IF ~f.exists THEN [file |-> f, result |-> Raise("FileNotFoundError")]
         ELSE IF FailedAssertion(f, example_dict) # "none"
         THEN [file |-> f, result |-> Raise("AssertionError")]
         ELSE [file |-> AppendRows(f, example_dict), result |-> NoResult]
    ELSE [file |-> CreateFile(example_dict), result |-> NoResult]

\* The 0-based positions of an array of n elements, ascending: numpy.where
\* selects among them.
Positions(n) == Array([i \in 1..n |-> i - 1])

\* _read_specific_examples: the file-level metadata, the three metadata
\* arrays at indices_to_keep and, unless metadata_only, the four data arrays.
_read_specific_examples_reversed(f, metadata_only, indices_to_keep) ==
    LET n == Len(indices_to_keep)
        backwards == Array([k \in 1..n |-> indices_to_keep[n + 1 - k]])
        metadata ==
            [target_times_unix_sec |-> Take(f.variables[VALID_TIMES_KEY], backwards),
             row_indices |-> Take(f.variables[ROW_INDICES_KEY], backwards),
             column_indices |-> Take(f.variables[COLUMN_INDICES_KEY], backwards),
             narr_predictor_names |-> f.narr_predictor_names,
             pressure_levels_mb |-> f.pressure_levels_mb,
             dilation_distance_metres |-> f.dilation_distance_metres,
             narr_mask_matrix |-> f.narr_mask_matrix,
             normalization_type_string |-> f.normalization_type_string]
    IN  IF metadata_only THEN metadata
        ELSE metadata @@
             [first_normalization_param_matrix |->
                  Take(f.variables[FIRST_NORM_PARAM_KEY], backwards),
              second_normalization_param_matrix |->
                  Take(f.variables[SECOND_NORM_PARAM_KEY], backwards),
              predictor_matrix |-> Take(f.variables[PREDICTOR_MATRIX_KEY], backwards),
              target_matrix |-> Take(f.variables[TARGET_MATRIX_KEY], backwards)]

_read_specific_examples(f, metadata_only, indices_to_keep) ==
    LET metadata ==
            [target_times_unix_sec |-> Take(f.variables[VALID_TIMES_KEY], indices_to_keep),
             row_indices |-> Take(f.variables[ROW_INDICES_KEY], indices_to_keep),
             column_indices |-> Take(f.variables[COLUMN_INDICES_KEY], indices_to_keep),
             narr_predictor_names |-> f.narr_predictor_names,
             pressure_levels_mb |-> f.pressure_levels_mb,
             dilation_distance_metres |-> f.dilation_distance_metres,
             narr_mask_matrix |-> f.narr_mask_matrix,
             normalization_type_string |-> f.normalization_type_string]
    IN  IF metadata_only THEN metadata
        ELSE metadata @@
             [first_normalization_param_matrix |->
                  Take(f.variables[FIRST_NORM_PARAM_KEY], indices_to_keep),
              second_normalization_param_matrix |->
                  Take(f.variables[SECOND_NORM_PARAM_KEY], indices_to_keep),
              predictor_matrix |-> Take(f.variables[PREDICTOR_MATRIX_KEY], indices_to_keep),
              target_matrix |-> Take(f.variables[TARGET_MATRIX_KEY], indices_to_keep)]

Min(a, b) == IF a <= b THEN a ELSE b

\* a[start:stop] of Python: a negative bound counts from the end, and both
\* bounds are clipped to the array.
Slice(a, start, stop) ==
    LET n == Len(a)
        Clip(x) == IF x < 0 THEN Max(x + n, 0) ELSE Min(x, n)
    IN  SubSeq(a, Clip(start) + 1, Clip(stop))

\* One half of _shrink_predictor_grid: the slice bounds along an axis of the
\* given length for the given number of half rows (or half columns).
FirstIndexOffByOne(length, num_half) == (length \div 2) - num_half + 1

FirstIndex(length, num_half) == (length \div 2) - num_half
LastIndex(length, num_half) == (length \div 2) + num_half

\* _shrink_predictor_grid on an E-by-M-by-N-by-C matrix of E >= 1 examples:
\* each half number must be an integer greater than 0, and the rows (columns)
\* kept are [first_row_index:last_row_index + 1] about the center row.
_shrink_predictor_grid(predictor_matrix, num_half_rows, num_half_columns) ==
    LET M == Len(predictor_matrix[1])
        N == Len(predictor_matrix[1][1])
        rows(window) ==
            IF num_half_rows = None THEN window
            ELSE Slice(window, FirstIndex(M, num_half_rows[1]),
                       LastIndex(M, num_half_rows[1]) + 1)
        columns(row) ==
            IF num_half_columns = None THEN row
            ELSE Slice(row, FirstIndex(N, num_half_columns[1]),
                       LastIndex(N, num_half_columns[1]) + 1)
    IN  IF num_half_rows # None /\ num_half_rows[1] <= 0
        THEN [raised |-> "ValueError", value |-> <<>>]
        ELSE IF num_half_columns # None /\ num_half_columns[1] <= 0
        THEN [raised |-> "ValueError", value |-> <<>>]
        ELSE [raised |-> "none",
              value |-> Array([e \in DOMAIN predictor_matrix |->
                  LET kept == rows(predictor_matrix[e])
                  IN  Array([j \in DOMAIN kept |-> columns(kept[j])])])]

\* The options of read_file.  normalization_file_name is None in every read
\* made here, so the stored normalization is kept.
AllReadOptions(metadata_only, predictor_names_to_keep, pressure_levels_to_keep_mb, num_half_rows_to_keep, num_half_columns_to_keep, id_strings_to_keep, first_time, last_time) ==
    [metadata_only |-> metadata_only,
     predictor_names_to_keep |-> predictor_names_to_keep,
     pressure_levels_to_keep_mb |-> pressure_levels_to_keep_mb,
     num_half_rows_to_keep |-> num_half_rows_to_keep,
     num_half_columns_to_keep |-> num_half_columns_to_keep,
     id_strings_to_keep |-> id_strings_to_keep,
     first_time_to_keep_unix_sec |-> first_time,
     last_time_to_keep_unix_sec |-> last_time,
     normalization_file_name |-> None]

\* The options that select examples, the channel subset and the spatial crop
\* being left at their default None.
ReadOptions(metadata_only, id_strings_to_keep, first_time, last_time) ==
    AllReadOptions(metadata_only, None, None, None, None,
                   id_strings_to_keep, first_time, last_time)

(***************************************************************************)
(* The orography channel.  The reference grid is data, and the windowing   *)
(* and the normalization are machine_learning_utils, outside these         *)
(* sources: they are held here by what the specification says of them, a   *)
(* window about each example's center cell, normalized per example.        *)
(***************************************************************************)
HEIGHT_NAME == "height_m_asl"
DUMMY_SURFACE_PRESSURE_MB == 1013
Z_SCORE_STRING == "z_score"

\* Surface height (whole metres) of the reference grid at a cell.
NARR_OROGRAPHY_MATRIX_M_ASL(row, column) == 10 * row + column

\* The E-by-m-by-n-by-1 windows of the reference grid about the examples'
\* center cells, m = 2 * num_rows_in_half_window + 1 and n likewise.
downsize_grids_around_selected_points(row_indices, column_indices, num_rows_in_half_window, num_columns_in_half_window) ==
    Array([e \in DOMAIN row_indices |->
        Array([j \in 1..(2 * num_rows_in_half_window + 1) |->
            Array([k \in 1..(2 * num_columns_in_half_window + 1) |->
                <<NARR_OROGRAPHY_MATRIX_M_ASL(
                    row_indices[e] - num_rows_in_half_window + j - 1,
                    column_indices[e] - num_columns_in_half_window + k - 1)>>])])])

RECURSIVE SumSeq(_)
SumSeq(a) == IF a = <<>> THEN 0 ELSE Head(a) + SumSeq(Tail(a))

\* Per-example normalization of a one-channel matrix: the first parameter is
\* the window's mean (z-score) or minimum (min-max), the second its spread,
\* and each value is held as its offset from the first parameter.
normalize_predictors_nonglobal(predictor_matrix, normalization_type_string) ==
    LET Cells(window) ==
            LET n == Len(window[1])
            IN  [i \in 1..(Len(window) * n) |->
                    window[((i - 1) \div n) + 1][((i - 1) % n) + 1][1]]
        Lowest(window) == CHOOSE v \in Range(Cells(window)) :
                              \A w \in Range(Cells(window)) : v <= w
        Highest(window) == CHOOSE v \in Range(Cells(window)) :
                               \A w \in Range(Cells(window)) : v >= w
        First(window) ==
            IF normalization_type_string = Z_SCORE_STRING
            THEN SumSeq(Cells(window)) \div Len(Cells(window))
            ELSE Lowest(window)
        Second(window) ==
            IF normalization_type_string = Z_SCORE_STRING
            THEN Highest(window) - Lowest(window)
            ELSE Highest(window)
    IN  [predictor_matrix |->
            Array([e \in DOMAIN predictor_matrix |->
                Array([j \in DOMAIN predictor_matrix[e] |->
                    Array([k \in DOMAIN predictor_matrix[e][j] |->
                        <<predictor_matrix[e][j][k][1] - First(predictor_matrix[e])>>])])]),
         first |-> Array([e \in DOMAIN predictor_matrix |-> <<First(predictor_matrix[e])>>]),
         second |-> Array([e \in DOMAIN predictor_matrix |-> <<Second(predictor_matrix[e])>>])]

\* _add_orography_to_examples putting the new channel first in the names.
_add_orography_to_examples_first(example_dict, normalization_file_name) ==
    LET predictor_matrix == example_dict.predictor_matrix
        num_half_rows == Len(predictor_matrix[1]) \div 2
        num_half_columns == Len(predictor_matrix[1][1]) \div 2
        orography_matrix_m_asl ==
            downsize_grids_around_selected_points(
                example_dict.row_indices, example_dict.column_indices,
                num_half_rows, num_half_columns)
        norm == normalize_predictors_nonglobal(
                    orography_matrix_m_asl, example_dict.normalization_type_string)
    IN  IF \/ 2 * num_half_rows + 1 # Len(predictor_matrix[1])
           \/ 2 * num_half_columns + 1 # Len(predictor_matrix[1][1])
        THEN [raised |-> "ValueError", value |-> <<>>]
        ELSE [raised |-> "none",
              value |-> [example_dict EXCEPT
                  !.first_normalization_param_matrix =
                      Array([e \in DOMAIN @ |-> @[e] \o norm.first[e]]),
                  !.second_normalization_param_matrix =
                      Array([e \in DOMAIN @ |-> @[e] \o norm.second[e]]),
                  !.predictor_matrix =
                      Array([e \in DOMAIN @ |->
                          Array([j \in DOMAIN @[e] |->
                              Array([k \in DOMAIN @[e][j] |->
                                  @[e][j][k] \o norm.predictor_matrix[e][j][k]])])]),
                  !.narr_predictor_names = <<HEIGHT_NAME>> \o @,
                  !.pressure_levels_mb = <<DUMMY_SURFACE_PRESSURE_MB>> \o @]]

\* _add_orography_to_examples (normalization_file_name is None): the window
\* of the reference grid about each example, of the half sizes of the
\* predictor matrix, is normalized and concatenated as the last channel of
\* the predictors and of both parameter arrays; numpy.concatenate raises when
\* the window's grid differs from the predictor matrix's.
_add_orography_to_examples(example_dict, normalization_file_name) ==
    LET predictor_matrix == example_dict.predictor_matrix
        num_half_rows == Len(predictor_matrix[1]) \div 2
        num_half_columns == Len(predictor_matrix[1][1]) \div 2
        orography_matrix_m_asl ==
            downsize_grids_around_selected_points(
                example_dict.row_indices, example_dict.column_indices,
                num_half_rows, num_half_columns)
        norm == normalize_predictors_nonglobal(
                    orography_matrix_m_asl, example_dict.normalization_type_string)
    IN  IF \/ 2 * num_half_rows + 1 # Len(predictor_matrix[1])
           \/ 2 * num_half_columns + 1 # Len(predictor_matrix[1][1])
        THEN [raised |-> "ValueError", value |-> <<>>]
        ELSE [raised |-> "none",
              value |-> [example_dict EXCEPT
                  !.first_normalization_param_matrix =
                      Array([e \in DOMAIN @ |-> @[e] \o norm.first[e]]),
                  !.second_normalization_param_matrix =
                      Array([e \in DOMAIN @ |-> @[e] \o norm.second[e]]),
                  !.predictor_matrix =
                      Array([e \in DOMAIN @ |->
                          Array([j \in DOMAIN @[e] |->
                              Array([k \in DOMAIN @[e][j] |->
                                  @[e][j][k] \o norm.predictor_matrix[e][j][k]])])]),
                  !.narr_predictor_names = Append(@, HEIGHT_NAME),
                  !.pressure_levels_mb = Append(@, DUMMY_SURFACE_PRESSURE_MB)]]

\* _subset_channels keeping the channels in the file's order.
_subset_channels_file_order(example_dict, metadata_only, predictor_names, pressure_levels_mb, normalization_file_name) ==
    LET num_channels == Len(predictor_names)
        orography_flags ==
            [k \in 1..num_channels |->
                /\ predictor_names[k] = HEIGHT_NAME
                /\ pressure_levels_mb[k] = DUMMY_SURFACE_PRESSURE_MB]
        add_orography == \E k \in 1..num_channels : orography_flags[k]
        these_indices ==
            SelectSeq(Positions(num_channels), LAMBDA k : ~orography_flags[k + 1])
        names == IF add_orography THEN Take(predictor_names, these_indices)
                 ELSE predictor_names
        levels == IF add_orography THEN Take(pressure_levels_mb, these_indices)
                  ELSE pressure_levels_mb
        all_predictor_names == example_dict.narr_predictor_names
        all_pressure_levels_mb == example_dict.pressure_levels_mb
        Matches(k) ==
            SelectSeq(Positions(Len(all_predictor_names)),
                      LAMBDA i : /\ Item(all_predictor_names, i) = names[k]
                                 /\ Item(all_pressure_levels_mb, i) = levels[k])
        indices_to_keep == LET found == {Matches(k)[1] : k \in DOMAIN names}
                           IN  SelectSeq(Positions(Len(all_predictor_names)),
                                         LAMBDA i : i \in found)
        subset_dict ==
            [example_dict EXCEPT
                !.narr_predictor_names = Take(@, indices_to_keep),
                !.pressure_levels_mb = Take(@, indices_to_keep)]
        with_orography_metadata ==
            [subset_dict EXCEPT
                !.narr_predictor_names = Append(@, HEIGHT_NAME),
                !.pressure_levels_mb = Append(@, DUMMY_SURFACE_PRESSURE_MB)]
        full_dict ==
            [subset_dict EXCEPT
                !.predictor_matrix =
                    Array([e \in DOMAIN @ |->
                        Array([j \in DOMAIN @[e] |->
                            Array([k \in DOMAIN @[e][j] |->
                                Take(@[e][j][k], indices_to_keep)])])]),
                !.first_normalization_param_matrix =
                    Array([e \in DOMAIN @ |-> Take(@[e], indices_to_keep)]),
                !.second_normalization_param_matrix =
                    Array([e \in DOMAIN @ |-> Take(@[e], indices_to_keep)])]
    IN  IF Len(pressure_levels_mb) # num_channels
        THEN [raised |-> "TypeError", value |-> <<>>]
        ELSE IF \E k \in DOMAIN names : Matches(k) = <<>>
        THEN [raised |-> "IndexError", value |-> <<>>]
        ELSE IF metadata_only
        THEN [raised |-> "none",
              value |-> IF add_orography THEN with_orography_metadata ELSE subset_dict]
        ELSE IF ~add_orography THEN [raised |-> "none", value |-> full_dict]
        ELSE _add_orography_to_examples(full_dict, normalization_file_name)

\* _subset_channels: the request must pair each name with a level; the
\* pairs of the height field at the surface level are taken out of it and
\* stand for the orography channel; each other pair is looked up in the
\* file's channels (the first match, IndexError when there is none); names,
\* levels and, unless metadata_only, the last axis of the predictors and of
\* both parameter arrays are taken at the indices found; the orography
\* channel comes last.
_subset_channels(example_dict, metadata_only, predictor_names, pressure_levels_mb, normalization_file_name) ==
    LET num_channels == Len(predictor_names)
        orography_flags ==
            [k \in 1..num_channels |->
                /\ predictor_names[k] = HEIGHT_NAME
                /\ pressure_levels_mb[k] = DUMMY_SURFACE_PRESSURE_MB]
        add_orography == \E k \in 1..num_channels : orography_flags[k]
        these_indices ==
            SelectSeq(Positions(num_channels), LAMBDA k : ~orography_flags[k + 1])
        names == IF add_orography THEN Take(predictor_names, these_indices)
                 ELSE predictor_names
        levels == IF add_orography THEN Take(pressure_levels_mb, these_indices)
                  ELSE pressure_levels_mb
        all_predictor_names == example_dict.narr_predictor_names
        all_pressure_levels_mb == example_dict.pressure_levels_mb
        Matches(k) ==
            SelectSeq(Positions(Len(all_predictor_names)),
                      LAMBDA i : /\ Item(all_predictor_names, i) = names[k]
                                 /\ Item(all_pressure_levels_mb, i) = levels[k])
        indices_to_keep == Array([k \in DOMAIN names |-> Matches(k)[1]])
        subset_dict ==
            [example_dict EXCEPT
                !.narr_predictor_names = Take(@, indices_to_keep),
                !.pressure_levels_mb = Take(@, indices_to_keep)]
        with_orography_metadata ==
            [subset_dict EXCEPT
                !.narr_predictor_names = Append(@, HEIGHT_NAME),
                !.pressure_levels_mb = Append(@, DUMMY_SURFACE_PRESSURE_MB)]
        full_dict ==
            [subset_dict EXCEPT
                !.predictor_matrix =
                    Array([e \in DOMAIN @ |->
                        Array([j \in DOMAIN @[e] |->
                            Array([k \in DOMAIN @[e][j] |->
                                Take(@[e][j][k], indices_to_keep)])])]),
                !.first_normalization_param_matrix =
                    Array([e \in DOMAIN @ |-> Take(@[e], indices_to_keep)]),
                !.second_normalization_param_matrix =
                    Array([e \in DOMAIN @ |-> Take(@[e], indices_to_keep)])]
    IN  IF Len(pressure_levels_mb) # num_channels
        THEN [raised |-> "TypeError", value |-> <<>>]
        ELSE IF \E k \in DOMAIN names : Matches(k) = <<>>
        THEN [raised |-> "IndexError", value |-> <<>>]
        ELSE IF metadata_only
        THEN [raised |-> "none",
              value |-> IF add_orography THEN with_orography_metadata ELSE subset_dict]
        ELSE IF ~add_orography THEN [raised |-> "none", value |-> full_dict]
        ELSE _add_orography_to_examples(full_dict, normalization_file_name)

\* The selection of read_file: good_example_indices, or the exception.
\* The indices found by find_example_ids, with what it raised.
IndicesOfFrame(frame) ==
    [raised |-> frame.raised, message |-> frame.message, indices |-> frame.desired_indices]

GoodExampleIndices(f, options) ==
    IF options.id_strings_to_keep = None
    THEN LET first == IF options.first_time_to_keep_unix_sec = None THEN 0
                      ELSE options.first_time_to_keep_unix_sec[1]
             last == IF options.last_time_to_keep_unix_sec = None THEN LARGE_INTEGER
                     ELSE options.last_time_to_keep_unix_sec[1]
             valid_times_unix_sec == f.variables[VALID_TIMES_KEY]
         IN  IF last < first
             THEN [raised |-> "ValueError", message |-> NoMessage, indices |-> <<>>]
             ELSE [raised |-> "none", message |-> NoMessage,
                   indices |-> SelectSeq(Positions(NumExamples(f)),
                                   LAMBDA i : /\ Item(valid_times_unix_sec, i) >= first
                                              /\ Item(valid_times_unix_sec, i) <= last)]
    ELSE IndicesOfFrame(find_example_ids(
             create_example_ids(f.variables[VALID_TIMES_KEY],
                                f.variables[ROW_INDICES_KEY],
                                f.variables[COLUMN_INDICES_KEY]),
             options.id_strings_to_keep[1], FALSE))

\* The end of read_file: the channels asked for are taken from the examples
\* left by the crop, unless the names or the levels are None.
SubsetStage(shrunk, options) ==
    IF shrunk.raised # "none" THEN Raise(shrunk.raised)
    ELSE IF \/ options.predictor_names_to_keep = None
            \/ options.pressure_levels_to_keep_mb = None
    THEN [raised |-> "none", message |-> NoMessage, value |-> Some(shrunk.value)]
    ELSE LET subset == _subset_channels(
                           shrunk.value, options.metadata_only,
                           options.predictor_names_to_keep[1],
                           options.pressure_levels_to_keep_mb[1],
                           options.normalization_file_name)
         IN  IF subset.raised # "none" THEN Raise(subset.raised)
             ELSE [raised |-> "none", message |-> NoMessage, value |-> Some(subset.value)]

\* The predictor grids are cropped unless only the metadata are read.
ShrinkStage(example_dict, options) ==
    IF options.metadata_only
    THEN SubsetStage([raised |-> "none", value |-> example_dict], options)
    ELSE LET grid == _shrink_predictor_grid(
                         example_dict.predictor_matrix,
                         options.num_half_rows_to_keep,
                         options.num_half_columns_to_keep)
         IN  SubsetStage(
                 IF grid.raised # "none" THEN grid
                 ELSE [raised |-> "none",
                       value |-> [example_dict EXCEPT !.predictor_matrix = grid.value]],
                 options)

\* read_file once the indices of the examples to keep are found: when_empty
\* is the outcome of a selection of no example.
ReadGood(f, options, good, when_empty) ==
    IF good.raised # "none"
    THEN [raised |-> good.raised, message |-> good.message, value |-> None]
    ELSE IF Len(good.indices) = 0 THEN when_empty
    ELSE ShrinkStage(_read_specific_examples(f, options.metadata_only, good.indices),
                     options)

\* read_file raising on an empty selection.
read_file_empty_raises(f, options) ==
    IF ~f.exists THEN Raise("IOError")
    ELSE ReadGood(f, options, GoodExampleIndices(f, options), Raise("ValueError"))

\* read_file: what the call returns (value: None or the example dictionary)
\* or raises.
read_file(f, options) ==
    IF ~f.exists THEN Raise("IOError")
    ELSE ReadGood(f, options, GoodExampleIndices(f, options), NoResult)

(***************************************************************************)
(* find_many_files.  A file is held by the part of its name that varies:   *)
(* 'downsized_3d_examples_<name>.nc' in the top directory for a file of a  *)
(* time period, '<name>' being the two times; and                          *)
(* 'batches*-*/downsized_3d_examples_batch<name>.nc' for a shuffled file.  *)
(***************************************************************************)
\* The largest digit that each character class of the regex admits.
TIME_FORMAT_REGEX == <<9, 9, 9, 9, 1, 9, 3, 9, 2, 9>>
BATCH_NUMBER_REGEX == <<9, 9, 9, 9, 9, 9, 9>>

MatchesRegex(s, regex) ==
    /\ Len(s) = Len(regex)
    /\ \A i \in DOMAIN s : IsDigit(s[i]) /\ DigitValue(s[i]) <= regex[i]

\* glob.glob(example_file_pattern): the names of the listing that fit the
\* pattern, in the listing's order.
glob(listing, shuffled) ==
    SelectSeq(listing,
        LAMBDA f :
            IF shuffled
            THEN f.kind = "batch" /\ MatchesRegex(f.name, BATCH_NUMBER_REGEX)
            ELSE /\ f.kind = "time"
                 /\ LET words == Split(f.name, "-")
                    IN  /\ Len(words) = 2
                        /\ MatchesRegex(words[1], TIME_FORMAT_REGEX)
                        /\ MatchesRegex(words[2], TIME_FORMAT_REGEX))

\* Days from 1970-01-01 to a date of the Gregorian calendar.
DaysFromCivil(year, month, day) ==
    LET y == IF month <= 2 THEN year - 1 ELSE year
        era == y \div 400
        year_of_era == y - era * 400
        shifted_month == IF month > 2 THEN month - 3 ELSE month + 9
        day_of_year == ((153 * shifted_month + 2) \div 5) + day - 1
        day_of_era == year_of_era * 365 + (year_of_era \div 4)
                          - (year_of_era \div 100) + day_of_year
    IN  era * 146097 + day_of_era - 719468

\* time_conversion.string_to_unix_sec(s, '%Y%m%d%H')
string_to_unix_sec(s) ==
    LET year == DigitsToNat(SubSeq(s, 1, 4))
        month == DigitsToNat(SubSeq(s, 5, 6))
        day == DigitsToNat(SubSeq(s, 7, 8))
        hour == DigitsToNat(SubSeq(s, 9, 10))
    IN  DaysFromCivil(year, month, day) * 86400 + hour * 3600

\* _file_name_to_times: the first and the last word between the dashes.
_file_name_to_times(example_file) ==
    LET valid_time_strings == Split(example_file.name, "-")
    IN  <<string_to_unix_sec(valid_time_strings[1]),
          string_to_unix_sec(valid_time_strings[Len(valid_time_strings)])>>

\* _file_name_to_batch_number: int() of what follows 'batch'.
_file_name_to_batch_number(example_file) == ParseInt(example_file.name)

\* find_many_files returning the empty list when no file is in the range.
find_many_files_empty_list(listing, shuffled, first_valid_time_unix_sec, last_valid_time_unix_sec, first_batch_number, last_batch_number) ==
    LET bad_arguments ==
            IF shuffled
            THEN first_batch_number < 0 \/ last_batch_number < first_batch_number
            ELSE last_valid_time_unix_sec < first_valid_time_unix_sec
        globbed == glob(listing, shuffled)
        example_file_names ==
            IF shuffled THEN globbed
            ELSE Take(globbed, argsort(Array([i \in DOMAIN globbed |-> globbed[i].name])))
        InRange(i) ==
            IF shuffled
            THEN LET batch_number == _file_name_to_batch_number(Item(example_file_names, i))
                 IN  /\ batch_number >= first_batch_number
                     /\ batch_number <= last_batch_number
            ELSE LET times == _file_name_to_times(Item(example_file_names, i))
                 IN  ~(\/ times[1] > last_valid_time_unix_sec
                       \/ times[2] < first_valid_time_unix_sec)
        good_indices == SelectSeq(Positions(Len(example_file_names)), InRange)
    IN  IF bad_arguments THEN [raised |-> "ValueError", value |-> <<>>]
        ELSE IF Len(globbed) = 0 THEN [raised |-> "ValueError", value |-> <<>>]
        ELSE IF Len(good_indices) = 0 THEN [raised |-> "none", value |-> <<>>]
        ELSE [raised |-> "none", value |-> Take(example_file_names, good_indices)]

\* find_many_files on a directory whose glob order is the listing's: the
\* arguments are checked, the pattern is globbed, the names of time periods
\* are sorted, and the files in the range are kept; ValueError when nothing
\* fits the pattern or nothing is in the range.
find_many_files(listing, shuffled, first_valid_time_unix_sec, last_valid_time_unix_sec, first_batch_number, last_batch_number) ==
    LET bad_arguments ==
            IF shuffled
            THEN first_batch_number < 0 \/ last_batch_number < first_batch_number
            ELSE last_valid_time_unix_sec < first_valid_time_unix_sec
        globbed == glob(listing, shuffled)
        example_file_names ==
            IF shuffled THEN globbed
            ELSE Take(globbed, argsort(Array([i \in DOMAIN globbed |-> globbed[i].name])))
        InRange(i) ==
            IF shuffled
            THEN LET batch_number == _file_name_to_batch_number(Item(example_file_names, i))
                 IN  /\ batch_number >= first_batch_number
                     /\ batch_number <= last_batch_number
            ELSE LET times == _file_name_to_times(Item(example_file_names, i))
                 IN  ~(\/ times[1] > last_valid_time_unix_sec
                       \/ times[2] < first_valid_time_unix_sec)
        good_indices == SelectSeq(Positions(Len(example_file_names)), InRange)
    IN  IF bad_arguments THEN [raised |-> "ValueError", value |-> <<>>]
        ELSE IF Len(globbed) = 0 THEN [raised |-> "ValueError", value |-> <<>>]
        ELSE IF Len(good_indices) = 0 THEN [raised |-> "ValueError", value |-> <<>>]
        ELSE [raised |-> "none", value |-> Take(example_file_names, good_indices)]

(***************************************************************************)
(* _do_data_augmentation.  A predictor example is held by where it comes   *)
(* from: the example of the batch it was made of (source), how it was made *)
(* (kind: original, shift, rotate or noise, with the parameters a and b)   *)
(* and the kind of the example the transform was applied to (of).  The     *)
(* transforms are those of gewittergefahr's data_augmentation module; each *)
(* returns as many examples as it is given.                                *)
(***************************************************************************)
Original(source) == [source |-> source, kind |-> "original", a |-> 0, b |-> 0, of |-> "none"]

Transformed(radar_image_matrix, kind, a, b) ==
    Array([i \in DOMAIN radar_image_matrix |->
        [source |-> radar_image_matrix[i].source, kind |-> kind, a |-> a, b |-> b,
         of |-> radar_image_matrix[i].kind]])

shift_radar_images(radar_image_matrix, x_offset_pixels, y_offset_pixels) ==
    Transformed(radar_image_matrix, "shift", x_offset_pixels, y_offset_pixels)

rotate_radar_images(radar_image_matrix, ccw_rotation_angle_deg) ==
    Transformed(radar_image_matrix, "rotate", ccw_rotation_angle_deg, 0)

\* The noise is drawn at random: draw names the sample.
noise_radar_images(radar_image_matrix, standard_deviation, draw) ==
    Transformed(radar_image_matrix, "noise", standard_deviation, draw)

\* The frame of a call at its first statement; the given_ fields keep the
\* two matrices as the caller passed them.
AugmentationFrame(predictor_matrix, target_matrix, x_translations_pixels, y_translations_pixels, ccw_rotation_angles_deg, noise_standard_deviation, num_noisings) ==
    [pc |-> "check",
     predictor_matrix |-> predictor_matrix,
     target_matrix |-> target_matrix,
     given_predictor_matrix |-> predictor_matrix,
     given_target_matrix |-> target_matrix,
     x_translations_pixels |-> x_translations_pixels,
     y_translations_pixels |-> y_translations_pixels,
     ccw_rotation_angles_deg |-> ccw_rotation_angles_deg,
     noise_standard_deviation |-> noise_standard_deviation,
     num_noisings |-> num_noisings,
     num_translations |-> 0, num_rotations |-> 0, orig_num_examples |-> 0,
     num_copies |-> 0, raised |-> "none"]

\* The checks without the one on translations of no pixel.
CheckArgumentsAllowZero(a) ==
    LET no_translation == a.x_translations_pixels = None /\ a.y_translations_pixels = None
        x == a.x_translations_pixels[1]
        y == a.y_translations_pixels[1]
        Failed(kind) == [a EXCEPT !.pc = "done", !.raised = kind]
    IN  IF ~no_translation /\ a.x_translations_pixels = None THEN Failed("TypeError")
        ELSE IF ~no_translation /\ a.y_translations_pixels = None THEN Failed("TypeError")
        ELSE IF ~no_translation /\ Len(y) # Len(x) THEN Failed("TypeError")
        ELSE IF a.num_noisings < 0 THEN Failed("ValueError")
        ELSE [a EXCEPT !.pc = "augment",
                       !.num_translations = IF no_translation THEN 0 ELSE Len(x),
                       !.num_rotations = IF a.ccw_rotation_angles_deg = None THEN 0
                                         ELSE Len(a.ccw_rotation_angles_deg[1]),
                       !.orig_num_examples = Len(a.predictor_matrix)]

\* The checks at the head of the function: without translations both arrays
\* are None; otherwise both are integer arrays of one length, and no
\* translation is of no pixel in both directions; num_noisings is at least 0.
CheckArguments(a) ==
    LET no_translation == a.x_translations_pixels = None /\ a.y_translations_pixels = None
        x == a.x_translations_pixels[1]
        y == a.y_translations_pixels[1]
        Failed(kind) == [a EXCEPT !.pc = "done", !.raised = kind]
    IN  IF ~no_translation /\ a.x_translations_pixels = None THEN Failed("TypeError")
        ELSE IF ~no_translation /\ a.y_translations_pixels = None THEN Failed("TypeError")
        ELSE IF ~no_translation /\ Len(y) # Len(x) THEN Failed("TypeError")
        ELSE IF ~no_translation /\ \E i \in DOMAIN x : Abs(x[i]) + Abs(y[i]) <= 0
        THEN Failed("ValueError")
        ELSE IF a.num_noisings < 0 THEN Failed("ValueError")
        ELSE [a EXCEPT !.pc = "augment",
                       !.num_translations = IF no_translation THEN 0 ELSE Len(x),
                       !.num_rotations = IF a.ccw_rotation_angles_deg = None THEN 0
                                         ELSE Len(a.ccw_rotation_angles_deg[1]),
                       !.orig_num_examples = Len(a.predictor_matrix)]

\* One pass of a loop appending the whole running target matrix.
AppendCopyAllTargets(a, this_predictor_matrix) ==
    [a EXCEPT !.predictor_matrix = @ \o this_predictor_matrix,
              !.target_matrix = @ \o @,
              !.num_copies = @ + 1]

\* The end of one pass of any of the three loops: the transformed examples
\* and the targets of the original examples are concatenated to the batch.
AppendCopy(a, this_predictor_matrix) ==
    [a EXCEPT !.predictor_matrix = @ \o this_predictor_matrix,
              !.target_matrix = @ \o Slice(@, 0, a.orig_num_examples),
              !.num_copies = @ + 1]

\* Pass i of the translation loop.
TranslateOnce(a) ==
    LET i == a.num_copies
    IN  AppendCopy(a, shift_radar_images(
            Slice(a.predictor_matrix, 0, a.orig_num_examples),
            Item(a.x_translations_pixels[1], i), Item(a.y_translations_pixels[1], i)))

\* Pass i of the rotation loop.
RotateOnce(a) ==
    LET i == a.num_copies - a.num_translations
    IN  AppendCopy(a, rotate_radar_images(
            Slice(a.predictor_matrix, 0, a.orig_num_examples),
            Item(a.ccw_rotation_angles_deg[1], i)))

\* One pass of the noising loop; the noise needs a positive standard deviation.
NoiseOnce(a, draw) ==
    IF a.noise_standard_deviation = None \/ a.noise_standard_deviation[1] <= 0
    THEN [a EXCEPT !.pc = "done", !.raised = "ValueError"]
    ELSE AppendCopy(a, noise_radar_images(
             Slice(a.predictor_matrix, 0, a.orig_num_examples),
             a.noise_standard_deviation[1], draw))

(***************************************************************************)
(* create_examples.  The disk is the set of the files on it; a file of     *)
(* predictors or of front labels is named by its kind and its valid time.  *)
(* predictor_io, fronts_io and machine_learning_utils are outside these    *)
(* sources: the finders, the sampler, the windower and the dilation are    *)
(* held by what the specification says of them.                            *)
(***************************************************************************)
MINMAX_STRING == "minmax"

\* The full grid is NumGridRows by NumGridColumns cells.
NumGridRows == 2
NumGridColumns == 3

GridCells == Array([i \in 1..(NumGridRows * NumGridColumns) |-> <<(i - 1) \div NumGridColumns, (i - 1) % NumGridColumns>>])

\* fronts_io.find_gridded_file and predictor_io.find_file: the name of the
\* file expected for the time; a finder told to raises when it is missing.
FindFile(disk, kind, valid_time_unix_sec, raise_error_if_missing) ==
    LET name == [kind |-> kind, time |-> valid_time_unix_sec]
    IN  IF raise_error_if_missing /\ name \notin disk
        THEN [raised |-> "ValueError", value |-> name]
        ELSE [raised |-> "none", value |-> name]

\* Every name stands for a file.
isfile_always(disk, file_name) == TRUE

\* os.path.isfile
isfile(disk, file_name) == file_name \in disk

\* The field of a predictor file (one channel), E = 1 time by M by N by 1; it
\* holds no NaN, so that filling the NaNs leaves it as read.
PredictorField(valid_time_unix_sec) ==
    <<Array([r \in 1..NumGridRows |->
        Array([c \in 1..NumGridColumns |->
            <<(valid_time_unix_sec \div 10800) + 10 * (r - 1) + (c - 1)>>])])>>

\* The labels of a front file on the grid: a warm front (1) in the first
\* cell and a cold front (2) in the last, no front (0) elsewhere.
FrontLabels ==
    Array([r \in 1..NumGridRows |->
        Array([c \in 1..NumGridColumns |->
            IF r = 1 /\ c = 1 THEN 1
            ELSE IF r = NumGridRows /\ c = NumGridColumns THEN 2 ELSE 0])])

\* Grid spacing in metres, by which a dilation distance is a number of cells.
NOMINAL_GRID_SPACING_METRES == 32000

\* A cell without front takes the label of a front within the distance.
dilate_ternary_target_images(target_matrix, dilation_distance_metres) ==
    LET d == dilation_distance_metres \div NOMINAL_GRID_SPACING_METRES
        Near(r, c) == {cell \in Range(GridCells) :
                        /\ target_matrix[cell[1] + 1][cell[2] + 1] # 0
                        /\ (cell[1] + 1 - r) * (cell[1] + 1 - r)
                             + (cell[2] + 1 - c) * (cell[2] + 1 - c) <= d * d}
        Label(r, c) ==
            IF Near(r, c) = {} THEN 0
            ELSE LET cell == CHOOSE x \in Near(r, c) : TRUE
                 IN  target_matrix[cell[1] + 1][cell[2] + 1]
    IN  Array([r \in DOMAIN target_matrix |->
            Array([c \in DOMAIN target_matrix[r] |->
                IF target_matrix[r][c] # 0 THEN target_matrix[r][c] ELSE Label(r, c)])])

\* machine_learning_utils.check_narr_mask: a grid of 0 and 1.
check_narr_mask(narr_mask_matrix) ==
    IF \A r \in DOMAIN narr_mask_matrix : \A c \in DOMAIN narr_mask_matrix[r] :
            narr_mask_matrix[r][c] \in {0, 1}
    THEN "none" ELSE "ValueError"

\* numpy.where(narr_mask_matrix == 1): the cells in row-major order.
WhereOne(narr_mask_matrix) ==
    SelectSeq(GridCells, LAMBDA cell : narr_mask_matrix[cell[1] + 1][cell[2] + 1] = 1)

\* Sequences of n different members of the set.
RECURSIVE Arrangements(_, _)
Arrangements(S, n) ==
    IF n = 0 THEN {<<>>}
    ELSE UNION {{<<x>> \o rest : rest \in Arrangements(S \ {x}, n - 1)} : x \in S}

\* The shuffled indices of the cells of the mask, cut to max_num_examples:
\* what lines 564 to 577 can leave in sampled_target_point_dict.
UniformSamples(narr_mask_matrix, max_num_examples) ==
    LET candidates == Range(WhereOne(narr_mask_matrix))
    IN  {Some(points) : points \in
            Arrangements(candidates, Min(Cardinality(candidates), max_num_examples))}

\* sample_target_points: None without any cell of the mask or without any
\* point to draw; otherwise for each class its quota of the points, or all
\* the cells of the class when they are fewer.  Fractions are in percent.
sample_target_points(target_matrix, class_fractions, num_points_to_sample, mask_matrix) ==
    LET candidates == Range(WhereOne(mask_matrix))
        OfClass(k) == {cell \in candidates : target_matrix[cell[1] + 1][cell[2] + 1] = k}
        Quota(k) == (class_fractions[k + 1] * num_points_to_sample + 50) \div 100
        Drawn(k) == Arrangements(OfClass(k), Min(Quota(k), Cardinality(OfClass(k))))
    IN  IF candidates = {} \/ num_points_to_sample = 0 THEN {None}
        ELSE {Some(p0 \o p1 \o p2) : p0 \in Drawn(0), p1 \in Drawn(1), p2 \in Drawn(2)}

\* What the sampling step of a call can leave in sampled_target_point_dict.
PossibleSamples(target_matrix, class_fractions, max_num_examples, narr_mask_matrix) ==
    LET mask == IF narr_mask_matrix = None THEN
                    Array([r \in 1..NumGridRows |-> Array([c \in 1..NumGridColumns |-> 1])])
                ELSE narr_mask_matrix[1]
    IN  IF class_fractions = None THEN UniformSamples(mask, max_num_examples)
        ELSE IF Len(class_fractions[1]) # 3 THEN {None}
        ELSE sample_target_points(target_matrix, class_fractions[1], max_num_examples, mask)

\* The window about each point, cells beyond the grid repeating the edge,
\* with the class, the time index and the center of each point.
WindowAroundPoints(predictor_matrix, target_matrix, num_rows_in_half_window, num_columns_in_half_window, points) ==
    LET Clamp(x, n) == IF x < 1 THEN 1 ELSE IF x > n THEN n ELSE x
        Window(point) ==
            Array([j \in 1..(2 * num_rows_in_half_window + 1) |->
                Array([k \in 1..(2 * num_columns_in_half_window + 1) |->
                    predictor_matrix[1]
                        [Clamp(point[1] + 1 - num_rows_in_half_window + j - 1, NumGridRows)]
                        [Clamp(point[2] + 1 - num_columns_in_half_window + k - 1, NumGridColumns)]])])
    IN  [predictor_matrix |-> Array([e \in DOMAIN points |-> Window(points[e])]),
         target_values |-> Array([e \in DOMAIN points |->
                                target_matrix[points[e][1] + 1][points[e][2] + 1]]),
         time_indices |-> Array([e \in DOMAIN points |-> 0]),
         row_indices |-> Array([e \in DOMAIN points |-> points[e][1]]),
         column_indices |-> Array([e \in DOMAIN points |-> points[e][2]])]

\* keras.utils.to_categorical
to_categorical(target_values, num_classes) ==
    Array([e \in DOMAIN target_values |->
        Array([k \in 1..num_classes |-> IF target_values[e] = k - 1 THEN 1 ELSE 0])])

\* A missing predictor file skipped as a missing front file is.
FindPredictorsThenSkip(disk, valid_time_unix_sec, rest) ==
    IF FindFile(disk, "predictor", valid_time_unix_sec, FALSE).value \notin disk
    THEN [raised |-> "none", value |-> None]
    ELSE rest

\* The predictor file is looked for, a missing one raising; rest is the
\* outcome of what follows once it is found.
FindPredictorsThen(disk, valid_time_unix_sec, rest) ==
    LET predictor_file == FindFile(disk, "predictor", valid_time_unix_sec, TRUE)
    IN  IF predictor_file.raised # "none"
        THEN [raised |-> predictor_file.raised, value |-> None]
        ELSE rest

\* create_examples on a disk; sampled is what the sampling step of this call
\* leaves in sampled_target_point_dict.  The outcome is what the call
\* raised, and the value it returned when it raised nothing.
create_examples(disk, valid_time_unix_sec, predictor_names, pressure_levels_mb, num_half_rows, num_half_columns, dilation_distance_metres, class_fractions, max_num_examples, normalization_type_string, narr_mask_matrix, sampled) ==
    LET gridded_front_file_name == FindFile(disk, "front", valid_time_unix_sec, FALSE).value
        mask == IF narr_mask_matrix = None THEN
                    Array([r \in 1..NumGridRows |-> Array([c \in 1..NumGridColumns |-> 1])])
                ELSE narr_mask_matrix[1]
        normalized == normalize_predictors_nonglobal(
                          PredictorField(valid_time_unix_sec), normalization_type_string)
        target_matrix == dilate_ternary_target_images(FrontLabels, dilation_distance_metres)
        downsized == WindowAroundPoints(normalized.predictor_matrix, target_matrix,
                                        num_half_rows, num_half_columns, sampled[1])
        example_dict ==
            [predictor_matrix |-> downsized.predictor_matrix,
             target_matrix |-> to_categorical(downsized.target_values, 3),
             target_times_unix_sec |->
                Array([e \in DOMAIN downsized.row_indices |-> valid_time_unix_sec]),
             row_indices |-> downsized.row_indices,
             column_indices |-> downsized.column_indices,
             normalization_type_string |-> normalization_type_string,
             narr_predictor_names |-> predictor_names,
             pressure_levels_mb |-> pressure_levels_mb,
             dilation_distance_metres |-> dilation_distance_metres,
             narr_mask_matrix |-> mask,
             first_normalization_param_matrix |->
                Array([e \in DOMAIN downsized.time_indices |->
                    Item(normalized.first, downsized.time_indices[e])]),
             second_normalization_param_matrix |->
                Array([e \in DOMAIN downsized.time_indices |->
                    Item(normalized.second, downsized.time_indices[e])])]
    IN  IF class_fractions # None /\ Len(class_fractions[1]) # 3
        THEN [raised |-> "TypeError", value |-> None]
        ELSE IF narr_mask_matrix # None /\ check_narr_mask(narr_mask_matrix[1]) # "none"
        THEN [raised |-> check_narr_mask(narr_mask_matrix[1]), value |-> None]
        ELSE IF ~isfile(disk, gridded_front_file_name)
        THEN [raised |-> "none", value |-> None]
        ELSE FindPredictorsThen(disk, valid_time_unix_sec,
                 IF gridded_front_file_name \notin disk
                 THEN [raised |-> "IOError", value |-> None]
                 ELSE IF sampled = None
                 THEN [raised |-> "none", value |-> None]
                 ELSE [raised |-> "none", value |-> Some(example_dict)])

(***************************************************************************)
(* downsized_generator_from_scratch.  A pull runs the generator from where *)
(* it stands to its next yield.  A full grid in memory is held by its      *)
(* valid time, and the cells of a time that may be the center of an        *)
(* example by their number in each class (no front, warm front, cold       *)
(* front); the sampler and the windower are machine_learning_utils, held   *)
(* by what the specification says of them.                                 *)
(***************************************************************************)
TIME_INTERVAL_SECONDS == 10800
MIN_EXAMPLES_PER_BATCH == 16
MIN_EXAMPLES_PER_TIME == 2

\* time_periods.range_and_interval_to_list, the endpoint included.
range_and_interval_to_list(start_time_unix_sec, end_time_unix_sec, time_interval_sec) ==
    Array([i \in 1..((end_time_unix_sec - start_time_unix_sec) \div time_interval_sec + 1) |->
        start_time_unix_sec + (i - 1) * time_interval_sec])

\* int(numpy.ceil(float(a) / b))
CeilingOfRatio(a, b) == (a + b - 1) \div b

\* The cells of each class left by the mask; the masks drawn are None, whole
\* or empty.
UnmaskedCells(cells_by_class, narr_mask_matrix) ==
    IF narr_mask_matrix = None THEN cells_by_class
    ELSE IF WhereOne(narr_mask_matrix[1]) = <<>> THEN <<0, 0, 0>>
    ELSE cells_by_class

\* binarize_front_images for two classes: warm and cold fronts are one class.
CellsOfClasses(cells_by_class, num_classes) ==
    IF num_classes = 2 THEN <<cells_by_class[1], cells_by_class[2] + cells_by_class[3]>>
    ELSE cells_by_class

\* The cells of each class over the full grids in memory.
RECURSIVE CellsInMemory(_, _, _, _)
CellsInMemory(times, cells, narr_mask_matrix, num_classes) ==
    IF times = <<>> THEN [k \in 1..num_classes |-> 0]
    ELSE LET here == CellsOfClasses(UnmaskedCells(cells[Head(times)], narr_mask_matrix),
                                    num_classes)
             rest == CellsInMemory(Tail(times), cells, narr_mask_matrix, num_classes)
         IN  [k \in 1..num_classes |-> here[k] + rest[k]]

\* sample_target_points by numbers: None without any cell or any point to
\* draw; otherwise of each class its quota of the points, or all the cells
\* of the class when they are fewer.  Fractions are in percent.
NumPointsSampled(cells_by_class, class_fractions, num_points_to_sample) ==
    IF SumSeq(cells_by_class) = 0 \/ num_points_to_sample = 0 THEN None
    ELSE Some([k \in DOMAIN class_fractions |->
                Min((class_fractions[k] * num_points_to_sample + 50) \div 100,
                    cells_by_class[k])])

\* The local variables of a generator before its first pull.
ScratchFrame(args, disk, cells) ==
    [pc |-> "start", kind |-> "scratch", args |-> args, disk |-> disk, cells |-> cells,
     valid_times_unix_sec |-> <<>>, num_times |-> 0, time_index |-> 0,
     num_times_in_memory |-> 0, num_times_needed_in_memory |-> 0,
     full_size_target_matrix |-> None,
     batch |-> None, raised |-> "none", num_yields |-> 0, num_skips |-> 0]

\* Lines 205 to 236: the checks of the arguments, the list of the valid
\* times in the order the shuffle left them, and the first values of the
\* local variables.
ScratchStart(g, shuffled_times) ==
    LET a == g.args
        num_classes == Len(a.class_fractions)
    IN  IF \/ num_classes < 2 \/ num_classes > 3
           \/ a.num_examples_per_batch < MIN_EXAMPLES_PER_BATCH
           \/ a.num_examples_per_time < MIN_EXAMPLES_PER_TIME
        THEN [g EXCEPT !.pc = "raised", !.raised = "ValueError"]
        ELSE IF a.narr_mask_matrix # None /\ check_narr_mask(a.narr_mask_matrix[1]) # "none"
        THEN [g EXCEPT !.pc = "raised", !.raised = check_narr_mask(a.narr_mask_matrix[1])]
        ELSE [g EXCEPT !.pc = "refill",
                       !.valid_times_unix_sec = shuffled_times,
                       !.num_times = Len(shuffled_times),
                       !.time_index = 0,
                       !.num_times_in_memory = 0,
                       !.num_times_needed_in_memory =
                           CeilingOfRatio(a.num_examples_per_batch, a.num_examples_per_time),
                       !.full_size_target_matrix = None]

\* The cursor standing still on a time without front file.
NextTimeIndexStuck(time_index, num_times) == time_index

\* time_index + 1 if time_index + 1 < num_times else 0
NextTimeIndex(time_index, num_times) ==
    IF time_index + 1 < num_times THEN time_index + 1 ELSE 0

\* A missing front file ending the generator, as a missing predictor file does.
ScratchSkipStops(g) == [g EXCEPT !.pc = "raised", !.raised = "IOError"]

\* Lines 240 to 252: the front file of the time at the cursor is missing.
ScratchSkip(g) ==
    [g EXCEPT !.time_index = NextTimeIndex(g.time_index, g.num_times),
              !.num_skips = Min(@ + 1, g.num_times + 1)]

\* Lines 323 to 334: the full grid of a time is the first in memory, or is
\* added to those in memory.
AppendFullGrid(full_size_target_matrix, valid_time_unix_sec) ==
    IF full_size_target_matrix = None \/ Len(full_size_target_matrix[1]) = 0
    THEN Some(<<valid_time_unix_sec>>)
    ELSE Some(full_size_target_matrix[1] \o <<valid_time_unix_sec>>)

\* Lines 254 to 336: the front file of the time at the cursor is there; the
\* predictor file is looked for, a missing one raising, the cursor moves on
\* and the full grids of the time are read into memory.
ScratchRead(g) ==
    LET valid_time == Item(g.valid_times_unix_sec, g.time_index)
        predictor_file == FindFile(g.disk, "predictor", valid_time, TRUE)
        full == AppendFullGrid(g.full_size_target_matrix, valid_time)
    IN  IF predictor_file.raised # "none"
        THEN [g EXCEPT !.pc = "raised", !.raised = predictor_file.raised]
        ELSE [g EXCEPT !.time_index = NextTimeIndex(g.time_index, g.num_times),
                       !.full_size_target_matrix = full,
                       !.num_times_in_memory = Len(full[1])]

\* The full grids kept in memory over the yield.
MemoryAfterYieldKept(g) == g

\* Lines 382 to 384: the full grids are dropped before the yield.
MemoryAfterYield(g) ==
    [g EXCEPT !.full_size_target_matrix = None, !.num_times_in_memory = 0]

\* Lines 338 to 386: points are sampled in the full grids in memory and
\* windowed; a sampler's None makes the windower raise, and fewer points
\* than num_examples_per_batch make the indexing by batch_indices raise.
ScratchSample(g) ==
    LET a == g.args
        num_classes == Len(a.class_fractions)
        sampled == NumPointsSampled(
                       CellsInMemory(g.full_size_target_matrix[1], g.cells,
                                     a.narr_mask_matrix, num_classes),
                       a.class_fractions, a.num_examples_per_batch)
    IN  IF sampled = None
        THEN [g EXCEPT !.pc = "raised", !.raised = "TypeError"]
        ELSE IF SumSeq(sampled[1]) < a.num_examples_per_batch
        THEN [g EXCEPT !.pc = "raised", !.raised = "IndexError"]
        ELSE [MemoryAfterYield(g) EXCEPT
                !.pc = "yielded",
                !.batch = Some([num_examples |-> a.num_examples_per_batch,
                                num_examples_by_class |-> sampled[1],
                                times |-> g.full_size_target_matrix[1]]),
                !.num_yields = @ + 1]

(***************************************************************************)
(* full_size_generator_from_scratch: the same refill loop, a batch being   *)
(* the full grids of num_times_per_batch times.                            *)
(***************************************************************************)
MIN_TIMES_PER_BATCH == 4

FullFrame(args, disk, cells) == [ScratchFrame(args, disk, cells) EXCEPT !.kind = "full"]

\* Lines 570 to 588: the checks of the arguments, the shuffled valid times
\* and the first values of the local variables.
FullStart(g, shuffled_times) ==
    IF \/ g.args.num_classes < 2 \/ g.args.num_classes > 3
       \/ g.args.num_times_per_batch < MIN_TIMES_PER_BATCH
    THEN [g EXCEPT !.pc = "raised", !.raised = "ValueError"]
    ELSE [g EXCEPT !.pc = "refill",
                   !.valid_times_unix_sec = shuffled_times,
                   !.num_times = Len(shuffled_times),
                   !.time_index = 0,
                   !.num_times_in_memory = 0,
                   !.num_times_needed_in_memory = g.args.num_times_per_batch,
                   !.full_size_target_matrix = None]

\* Lines 695 to 712: the full grids in memory are the batch; a new pass of
\* the outer loop drops them.
FullYield(g) ==
    [MemoryAfterYield(g) EXCEPT
        !.pc = "yielded",
        !.batch = Some([num_examples |-> Len(g.full_size_target_matrix[1]),
                        num_examples_by_class |-> <<>>,
                        times |-> g.full_size_target_matrix[1]]),
        !.num_yields = @ + 1]

(***************************************************************************)
(* downsized_generator_from_example_files.  An example in memory is held   *)
(* by the shuffled file it was read from and its position in that file.    *)
(***************************************************************************)
\* LARGE_INTEGER of training_validation_io.py, int(1e10) in the source.  A
\* batch number has 7 digits, so the source's constant exceeds every batch
\* number; it is held here at the largest int32.
LAST_BATCH_NUMBER == 2147483647

\* The examples of one file of the store: their valid times and classes.
StoredExample(batch_number, index, valid_time_unix_sec) ==
    [batch_number |-> batch_number, index |-> index,
     valid_time_unix_sec |-> valid_time_unix_sec, target_class |-> index % 3]

\* examples_io.read_file with first_time_to_keep_unix_sec and
\* last_time_to_keep_unix_sec (lines 1275 to 1317 of learning_examples_io.py):
\* a last time before the first fails the check of the arguments; the
\* examples with a valid time in the range are returned, in the order of the
\* file; None when there is none.
read_file_by_time(stored_examples, first_time_to_keep_unix_sec, last_time_to_keep_unix_sec) ==
    LET good == SelectSeq(stored_examples,
                    LAMBDA e : /\ e.valid_time_unix_sec >= first_time_to_keep_unix_sec
                               /\ e.valid_time_unix_sec <= last_time_to_keep_unix_sec)
    IN  IF last_time_to_keep_unix_sec < first_time_to_keep_unix_sec
        THEN [raised |-> "ValueError", value |-> None]
        ELSE IF Len(good) = 0 THEN [raised |-> "none", value |-> None]
        ELSE [raised |-> "none", value |-> Some(good)]

\* The local variables of the generator before its first pull; store gives
\* the examples of each file of the listing.
StoreFrame(args, listing, store) ==
    [pc |-> "start", kind |-> "store", args |-> args, listing |-> listing, store |-> store,
     example_file_names |-> <<>>, num_files |-> 0, file_index |-> 0,
     num_examples_in_memory |-> 0, target_matrix |-> None,
     batch |-> None, raised |-> "none", num_yields |-> 0, num_shuffles |-> 0,
     num_reads |-> 0]

\* Lines 442 to 444: the shuffled files of every batch number.
FoundExampleFiles(listing) == find_many_files(listing, TRUE, 0, 0, 0, LAST_BATCH_NUMBER)

\* Lines 436 to 449: the checks of the arguments, the files found, left by
\* random.shuffle in the order shuffled_names, and the first values of the
\* local variables.
StoreStart(g, shuffled_names) ==
    LET found == FoundExampleFiles(g.listing)
    IN  IF \/ g.args.num_classes < 2 \/ g.args.num_classes > 3
           \/ g.args.num_examples_per_batch < MIN_EXAMPLES_PER_BATCH
        THEN [g EXCEPT !.pc = "raised", !.raised = "ValueError"]
        ELSE IF found.raised # "none"
        THEN [g EXCEPT !.pc = "raised", !.raised = found.raised]
        ELSE [g EXCEPT !.pc = "refill",
                       !.example_file_names = shuffled_names,
                       !.num_files = Len(shuffled_names),
                       !.file_index = 0,
                       !.num_examples_in_memory = 0,
                       !.num_shuffles = 1]

\* The file cursor left where it is by a read that returns None.
FileIndexAfterReadKeptOnNone(file_index, num_files, this_example_dict) ==
    IF this_example_dict = None THEN file_index
    ELSE IF file_index + 1 < num_files THEN file_index + 1 ELSE 0

\* Line 473, before the test of this_example_dict:
\* file_index + 1 if file_index + 1 < num_files else 0
FileIndexAfterRead(file_index, num_files, this_example_dict) ==
    IF file_index + 1 < num_files THEN file_index + 1 ELSE 0

\* Lines 484 to 502: the examples read are the first in memory, or are added
\* to those in memory.
Accumulate(target_matrix, these_examples) ==
    IF target_matrix = None \/ Len(target_matrix[1]) = 0 THEN Some(these_examples)
    ELSE Some(target_matrix[1] \o these_examples)

\* Lines 456 to 504: one pass of the inner loop.  The file at the cursor is
\* read, the cursor moves on, and the examples read, if any, are added to
\* those in memory.  num_reads counts the reads, up to one more than the
\* files.
StoreRead(g) ==
    LET example_file == Item(g.example_file_names, g.file_index)
        read == read_file_by_time(g.store[example_file], g.args.first_time_unix_sec,
                                  g.args.last_time_unix_sec)
        file_index == FileIndexAfterRead(g.file_index, g.num_files, read.value)
    IN  IF read.raised # "none"
        THEN [g EXCEPT !.pc = "raised", !.raised = read.raised]
        ELSE IF read.value = None \/ Len(read.value[1]) = 0
        THEN [g EXCEPT !.file_index = file_index,
                       !.num_reads = Min(@ + 1, g.num_files + 1)]
        ELSE LET target_matrix == Accumulate(g.target_matrix, read.value[1])
             IN  [g EXCEPT !.file_index = file_index,
                           !.num_reads = Min(@ + 1, g.num_files + 1),
                           !.target_matrix = target_matrix,
                           !.num_examples_in_memory = Len(target_matrix[1])]

\* The class of an example in the batch: with two classes, warm and cold
\* fronts are one class (lines 511 to 514).
BatchClass(target_class, num_classes) ==
    IF num_classes = 2 /\ target_class > 1 THEN 1 ELSE target_class

\* Lines 506 to 530: the examples at the shuffled batch_indices are the
\* batch; augmentation_dict is None.
StoreYield(g, batch_indices) ==
    LET target_matrix == Take(g.target_matrix[1], batch_indices)
    IN  [g EXCEPT !.pc = "yielded",
                  !.target_matrix = Some(target_matrix),
                  !.batch = Some([examples |-> target_matrix,
                                  target_values |->
                                      [k \in DOMAIN target_matrix |->
                                          BatchClass(target_matrix[k].target_class,
                                                     g.args.num_classes)]]),
                  !.num_examples_in_memory = 0,
                  !.num_yields = @ + 1]

\* The examples in memory kept over the start of a pull.
StoreLoopTopKeeps(g) == [g EXCEPT !.pc = "refill"]

\* Lines 454 to 456: the outer loop starts a pull with nothing in memory.
StoreLoopTop(g) == [g EXCEPT !.pc = "refill", !.target_matrix = None]

(***************************************************************************)
(* read_specific_examples_many_files.  The directory is held as a function *)
(* from the names of its files of time periods to the files.               *)
(***************************************************************************)
\* time_conversion.unix_sec_to_string(t, '%Y%m%d%H'): the date of the
\* Gregorian calendar and the hour, as ten digits.
unix_sec_to_string(unix_time_sec) ==
    LET days == unix_time_sec \div 86400
        hour == (unix_time_sec % 86400) \div 3600
        z == days + 719468
        era == z \div 146097
        day_of_era == z - era * 146097
        year_of_era == (day_of_era - (day_of_era \div 1460) + (day_of_era \div 36524)
                            - (day_of_era \div 146096)) \div 365
        day_of_year == day_of_era - (365 * year_of_era + (year_of_era \div 4)
                                        - (year_of_era \div 100))
        shifted_month == (5 * day_of_year + 2) \div 153
        day == day_of_year - ((153 * shifted_month + 2) \div 5) + 1
        month == IF shifted_month < 10 THEN shifted_month + 3 ELSE shifted_month - 9
        year == year_of_era + era * 400 + (IF month <= 2 THEN 1 ELSE 0)
    IN  FormatZeroPadded(year, 4) \o FormatZeroPadded(month, 2)
            \o FormatZeroPadded(day, 2) \o FormatZeroPadded(hour, 2)

\* find_file with shuffled=False: the name of the file of the period, a
\* ValueError when the last time is before the first or when the file is
\* missing and raise_error_if_missing.
find_file(file_names, first_valid_time_unix_sec, last_valid_time_unix_sec, raise_error_if_missing) ==
    LET example_file_name ==
            [kind |-> "time",
             name |-> unix_sec_to_string(first_valid_time_unix_sec) \o <<"-">>
                        \o unix_sec_to_string(last_valid_time_unix_sec)]
    IN  IF last_valid_time_unix_sec < first_valid_time_unix_sec
        THEN [raised |-> "ValueError", value |-> None]
        ELSE IF raise_error_if_missing /\ ~isfile(file_names, example_file_name)
        THEN [raised |-> "ValueError", value |-> None]
        ELSE [raised |-> "none", value |-> Some(example_file_name)]

\* example_ids_to_metadata: the first identifier that fails to parse raises.
example_ids_to_metadata(example_id_strings) ==
    LET parsed == [i \in DOMAIN example_id_strings |->
                        example_id_to_metadata(example_id_strings[i])]
        failed == {i \in DOMAIN parsed : parsed[i].raised # "none"}
    IN  IF failed # {}
        THEN [raised |-> parsed[CHOOSE i \in failed : \A j \in failed : i <= j].raised,
              value |-> <<>>]
        ELSE [raised |-> "none",
              value |-> <<Array([i \in DOMAIN parsed |-> parsed[i].value[1]]),
                          Array([i \in DOMAIN parsed |-> parsed[i].value[2]]),
                          Array([i \in DOMAIN parsed |-> parsed[i].value[3]])>>]

\* The different values of the array in the order of their first places.
RECURSIVE numpy_unique_unsorted(_)
numpy_unique_unsorted(a) ==
    IF a = <<>> THEN <<>>
    ELSE <<Head(a)>> \o numpy_unique_unsorted(SelectSeq(Tail(a), LAMBDA x : x # Head(a)))

\* numpy.unique: the different values of the array, ascending.
RECURSIVE numpy_unique(_)
numpy_unique(a) ==
    IF a = <<>> THEN <<>>
    ELSE LET least == CHOOSE x \in Range(a) : \A y \in Range(a) : x <= y
         IN  <<least>> \o numpy_unique(SelectSeq(a, LAMBDA x : x # least))

\* The value that numpy.full leaves at every place of the arrays of the
\* dictionary returned.
UNFILLED == -1

\* array[start:stop, ...] = values, the array being a numpy array: the slice
\* ends with the array, and values of another length do not fit.
AssignSlice(array, start, stop, values) ==
    IF Min(stop, Len(array)) - Min(start, Len(array)) # Len(values)
    THEN [raised |-> "ValueError", value |-> array]
    ELSE [raised |-> "none",
          value |-> Array([i \in DOMAIN array |->
                        IF i > start /\ i <= stop THEN values[i - start] ELSE array[i]])]

\* The local variables at the start of a call.
ManyFrame(disk, example_id_strings) ==
    [pc |-> "start", disk |-> disk, example_id_strings |-> example_id_strings,
     valid_times_unix_sec |-> <<>>, unique_times_unix_sec |-> <<>>, num_times_read |-> 0,
     example_dict |-> None, num_examples |-> 0, num_examples_read |-> 0,
     raised |-> "none", value |-> None]

\* Lines 1378 to 1384: the valid times of the identifiers and the times of
\* the loop.
ManyStart(r) ==
    LET metadata == example_ids_to_metadata(r.example_id_strings)
    IN  IF metadata.raised # "none"
        THEN [r EXCEPT !.pc = "raised", !.raised = metadata.raised]
        ELSE [r EXCEPT !.pc = "loop",
                       !.valid_times_unix_sec = metadata.value[1],
                       !.unique_times_unix_sec = numpy_unique(metadata.value[1]),
                       !.num_examples = Len(r.example_id_strings)]

\* Lines 1411 to 1434: the first dictionary read gives the metadata and the
\* shapes of the arrays, which are made for num_examples examples; the
\* examples read are then put at the places after those of the files before.
ManyFill(r, new_example_dict) ==
    LET this_num_examples == Len(new_example_dict[VALID_TIMES_KEY])
        prev_num_examples_read == r.num_examples_read
        num_examples_read == r.num_examples_read + this_num_examples
        example_dict ==
            IF r.example_dict = None
            THEN [key \in DOMAIN new_example_dict |->
                     IF key \in Range(MAIN_KEYS)
                     THEN Array([i \in 1..r.num_examples |-> UNFILLED])
                     ELSE new_example_dict[key]]
            ELSE r.example_dict[1]
        assigned == [key \in Range(MAIN_KEYS) |->
                        AssignSlice(example_dict[key], prev_num_examples_read,
                                    num_examples_read, new_example_dict[key])]
    IN  IF \E key \in Range(MAIN_KEYS) : assigned[key].raised # "none"
        THEN [r EXCEPT !.pc = "raised", !.raised = "ValueError"]
        ELSE [r EXCEPT !.num_times_read = @ + 1,
                       !.num_examples_read = num_examples_read,
                       !.example_dict =
                           Some([key \in DOMAIN example_dict |->
                                    IF key \in Range(MAIN_KEYS) THEN assigned[key].value
                                    ELSE example_dict[key]])]

\* What read_file returned is put in the dictionary, unless it raised; the
\* length of None is a TypeError.
ManyFillFrom(r, read) ==
    IF read.raised # "none" THEN [r EXCEPT !.pc = "raised", !.raised = read.raised]
    ELSE IF read.value = None THEN [r EXCEPT !.pc = "raised", !.raised = "TypeError"]
    ELSE ManyFill(r, read.value[1])

\* Lines 1384 to 1434: one pass of the loop, for the next of the times.
ManyReadTime(r) ==
    LET this_time_unix_sec == Item(r.unique_times_unix_sec, r.num_times_read)
        this_example_file_name ==
            find_file(DOMAIN r.disk, this_time_unix_sec, this_time_unix_sec, TRUE)
        these_indices ==
            SelectSeq(Positions(Len(r.valid_times_unix_sec)),
                LAMBDA k : Item(r.valid_times_unix_sec, k) = this_time_unix_sec)
    IN  IF this_example_file_name.raised # "none"
        THEN [r EXCEPT !.pc = "raised", !.raised = this_example_file_name.raised]
        ELSE ManyFillFrom(r,
                read_file(r.disk[this_example_file_name.value[1]],
                    ReadOptions(FALSE, Some(Take(r.example_id_strings, these_indices)),
                                None, None)))

\* Line 1436.
ManyReturn(r) ==
    [r EXCEPT !.pc = "done",
              !.value = IF r.example_dict = None THEN Some(<<>>) ELSE r.example_dict]

(***************************************************************************)
(* Inputs                                                                  *)
(***************************************************************************)
MaxAdd == 2        \* examples in one example dictionary
MaxExamples == 3   \* examples in the file
MaxIds == 2        \* identifiers in one id_strings_to_keep
MaxAll == 3        \* identifiers in all_id_strings
MaxDesired == 2    \* identifiers in desired_id_strings
MaxGridExamples == 2   \* examples in a file of whole windows
MaxChannels == 2   \* (name, level) pairs in one channel request
StoredHalfRows == 2    \* half rows of the windows of such a file
StoredHalfColumns == 1 \* half columns of the windows of such a file

\* Examples as create_examples makes them: one row of each main key, the
\* predictor window being of one grid cell.  The second predictor of Example3
\* is not a float32 number.
Example1 ==
    [predictor_matrix |-> <<<<<<11, -12>>>>>>, target_matrix |-> <<1, 0, 0>>,
     target_times_unix_sec |-> 0, row_indices |-> 9, column_indices |-> 10,
     first_normalization_param_matrix |-> <<280, 1500>>,
     second_normalization_param_matrix |-> <<10, 100>>]
Example2 ==
    [predictor_matrix |-> <<<<<<21, 22>>>>>>, target_matrix |-> <<0, 1, 0>>,
     target_times_unix_sec |-> 10800, row_indices |-> 10, column_indices |-> 9,
     first_normalization_param_matrix |-> <<281, 1501>>,
     second_normalization_param_matrix |-> <<11, 101>>]
Example3 ==
    [predictor_matrix |-> <<<<<<31, 16777217>>>>>>, target_matrix |-> <<0, 0, 1>>,
     target_times_unix_sec |-> 10800, row_indices |-> 100, column_indices |-> 200,
     first_normalization_param_matrix |-> <<281, 1501>>,
     second_normalization_param_matrix |-> <<11, 33554435>>]

ExamplePool == {Example1, Example2, Example3}

\* The examples of the dictionaries that are written.
WritePool == {Example1, Example3}

\* Distances in half metres: 100000 is 50000.0 m, 100001 is 50000.5 m.
BaseSchema ==
    [narr_predictor_names |-> <<"temperature_kelvins", "height_m_asl">>,
     pressure_levels_mb |-> <<1000, 850>>,
     dilation_distance_metres |-> 100000,
     narr_mask_matrix |-> <<<<1, 1>>, <<1, 0>>>>,
     normalization_type_string |-> "z_score"]

OtherSchemas ==
    {[BaseSchema EXCEPT !.narr_predictor_names = <<"height_m_asl", "temperature_kelvins">>],
     [BaseSchema EXCEPT !.pressure_levels_mb = <<1000, 900>>],
     [BaseSchema EXCEPT !.normalization_type_string = "minmax"],
     [BaseSchema EXCEPT !.narr_mask_matrix = <<<<1, 1>>, <<1, 1>>>>],
     [BaseSchema EXCEPT !.dilation_distance_metres = 100001],
     [BaseSchema EXCEPT !.dilation_distance_metres = 100002]}

SchemaOf(d) ==
    [narr_predictor_names |-> d.narr_predictor_names,
     pressure_levels_mb |-> d.pressure_levels_mb,
     dilation_distance_metres |-> d.dilation_distance_metres,
     narr_mask_matrix |-> d.narr_mask_matrix,
     normalization_type_string |-> d.normalization_type_string]

\* The dictionary of the examples under a schema: each main key holds the
\* examples' rows in order.
ExampleDict(schema, examples) ==
    schema @@ [key \in Range(MAIN_KEYS) |->
                  Array([i \in DOMAIN examples |-> examples[i][key]])]

\* Dictionaries hold at least one example.
ExampleLists == SeqsUpTo(WritePool, MaxAdd) \ {<<>>}

ExampleDicts ==
    {ExampleDict(BaseSchema, es) : es \in ExampleLists}
        \cup {ExampleDict(schema, <<Example1>>) : schema \in OtherSchemas}

ExampleIdOf(e) ==
    create_example_id(e.target_times_unix_sec, e.row_indices, e.column_indices)

\* The identifiers of the pool and one that no example has.
AbsentId == create_example_id(10800, 9, 10)
IdPool == {ExampleIdOf(e) : e \in ExamplePool} \cup {AbsentId}


TimeRanges ==
    {<<None, None>>, <<Some(0), Some(0)>>, <<Some(10801), None>>, <<Some(5), Some(1)>>}

TimeReadOptions ==
    {ReadOptions(m, None, r[1], r[2]) : m \in BOOLEAN, r \in TimeRanges}

IdReadOptions ==
    {ReadOptions(m, Some(ids), None, None) :
        m \in BOOLEAN, ids \in SeqsUpTo(IdPool, MaxIds)}

\* Examples with whole windows of (2 * StoredHalfRows + 1) rows and
\* (2 * StoredHalfColumns + 1) columns, every cell of a window distinct.
GridWindow(base) ==
    Array([j \in 1..(2 * StoredHalfRows + 1) |->
        Array([k \in 1..(2 * StoredHalfColumns + 1) |->
            <<base + 100 * j + 10 * k + 1, base + 100 * j + 10 * k + 2>>])])

GridExample1 == [Example1 EXCEPT !.predictor_matrix = GridWindow(0)]
GridExample2 == [Example3 EXCEPT !.predictor_matrix = GridWindow(5000),
                                 !.second_normalization_param_matrix = <<11, 101>>]
GridPool == {GridExample1, GridExample2}

MinMaxSchema == [BaseSchema EXCEPT !.normalization_type_string = "minmax"]

GridDicts ==
    {ExampleDict(BaseSchema, es) : es \in SeqsUpTo(GridPool, MaxGridExamples) \ {<<>>}}
        \cup {ExampleDict(MinMaxSchema, <<GridExample1>>)}

\* The channels of BaseSchema, the orography channel and one that no file has.
ChannelPool ==
    {<<"temperature_kelvins", 1000>>, <<"height_m_asl", 850>>,
     <<HEIGHT_NAME, DUMMY_SURFACE_PRESSURE_MB>>, <<"temperature_kelvins", 850>>}

ChannelRequests == SeqsUpTo(ChannelPool, MaxChannels) \ {<<>>}

NamesOf(request) == Array([k \in DOMAIN request |-> request[k][1]])
LevelsOf(request) == Array([k \in DOMAIN request |-> request[k][2]])

\* Requests of paired names and levels, whole or cropped to one half row and
\* column; one whose levels are one short; one without levels.
ChannelReadOptions ==
    {AllReadOptions(m, Some(NamesOf(q)), Some(LevelsOf(q)), h, h, None, None, None) :
        m \in BOOLEAN, q \in ChannelRequests, h \in {None, Some(1)}}
    \cup {AllReadOptions(m, Some(<<"temperature_kelvins", "height_m_asl">>), levels,
                         None, None, None, None, None) :
            m \in BOOLEAN, levels \in {Some(<<1000>>), None}}

CropReadOptions ==
    {AllReadOptions(m, None, None, hr, hc, None, None, None) :
        m \in BOOLEAN,
        hr \in {None} \cup {Some(h) : h \in 0..(StoredHalfRows + 2)},
        hc \in {None} \cup {Some(h) : h \in 0..(StoredHalfColumns + 1)}}

IdleFinder == [pc |-> "idle"]
IdleAugmenter == [pc |-> "idle"]
IdleFactory == [pc |-> "idle"]
IdleGenerator == [pc |-> "idle"]
IdleManyReader == [pc |-> "idle"]
IdleLookup == [LookupFrame(<<>>, <<>>, FALSE) EXCEPT !.pc = "idle"]
IdleEnc == [pc |-> "idle", triples |-> <<>>, raised |-> "none", ids |-> <<>>, decoded |-> <<>>]

(***************************************************************************)
(* The store: write_file and read_file on one path                         *)
(***************************************************************************)
Init ==
    /\ generator = IdleGenerator
    /\ manyreader = IdleManyReader
    /\ file = NoFile
    /\ before = NoFile
    /\ written = <<>>
    /\ call = [op |-> "none"]
    /\ result = NoResult
    /\ finder = IdleFinder
    /\ augmenter = IdleAugmenter
    /\ factory = IdleFactory
    /\ lookup = IdleLookup
    /\ enc = IdleEnc

WriteFile(example_dict, append_to_file) ==
    LET out == write_file(file, example_dict, append_to_file)
    IN  /\ out.file.exists => NumExamples(out.file) <= MaxExamples
        /\ before' = file
        /\ file' = out.file
        /\ result' = out.result
        /\ call' = [op |-> "write_file", example_dict |-> example_dict,
                    append_to_file |-> append_to_file]
        /\ written' = IF out.result.raised # "none" THEN written
                      ELSE IF append_to_file THEN Append(written, example_dict)
                      ELSE <<example_dict>>
        /\ UNCHANGED <<lookup, enc, finder, augmenter, factory, generator, manyreader>>

Create == \E d \in ExampleDicts : WriteFile(d, FALSE)

AppendToFile == \E d \in ExampleDicts : WriteFile(d, TRUE)

Read(options) ==
    /\ before' = file
    /\ result' = read_file(file, options)
    /\ call' = [op |-> "read_file", options |-> options]
    /\ UNCHANGED <<file, written, lookup, enc, finder, augmenter, factory, generator, manyreader>>

ReadByTime == \E options \in TimeReadOptions : Read(options)

Next == Create \/ AppendToFile \/ ReadByTime

Spec == Init /\ [][Next]_vars

(***************************************************************************)
(* read_file on a file of up to MaxExamples examples                       *)
(***************************************************************************)
InitRead ==
    /\ generator = IdleGenerator
    /\ manyreader = IdleManyReader
    /\ \E es \in SeqsUpTo(ExamplePool, MaxExamples) \ {<<>>} :
            /\ file = CreateFile(ExampleDict(BaseSchema, es))
            /\ written = <<ExampleDict(BaseSchema, es)>>
    /\ before = file
    /\ call = [op |-> "none"]
    /\ result = NoResult
    /\ finder = IdleFinder
    /\ augmenter = IdleAugmenter
    /\ factory = IdleFactory
    /\ lookup = IdleLookup
    /\ enc = IdleEnc

\* One read of each file.
ReadOnce(options) ==
    /\ call = [op |-> "none"]
    /\ Read(options)

ReadById == \E options \in IdReadOptions : ReadOnce(options)

ReadOnceByTime == \E options \in TimeReadOptions : ReadOnce(options)

NextRead == ReadById \/ ReadOnceByTime

SpecRead == InitRead /\ [][NextRead]_vars

(***************************************************************************)
(* read_file with a channel request or a crop, on a file of whole windows  *)
(***************************************************************************)
InitSubset ==
    /\ generator = IdleGenerator
    /\ manyreader = IdleManyReader
    /\ \E d \in GridDicts :
            /\ file = CreateFile(d)
            /\ written = <<d>>
    /\ before = file
    /\ call = [op |-> "none"]
    /\ result = NoResult
    /\ finder = IdleFinder
    /\ augmenter = IdleAugmenter
    /\ factory = IdleFactory
    /\ lookup = IdleLookup
    /\ enc = IdleEnc

ReadChannels == \E options \in ChannelReadOptions : ReadOnce(options)

ReadCrop == \E options \in CropReadOptions : ReadOnce(options)

NextSubset == ReadChannels \/ ReadCrop

SpecSubset == InitSubset /\ [][NextSubset]_vars

(***************************************************************************)
(* find_many_files on a directory listing in any glob order                *)
(***************************************************************************)
MaxListing == 3    \* files in the directory

TimeFile(first_time, last_time) ==
    [kind |-> "time",
     name |-> FormatZeroPadded(first_time, 10) \o <<"-">> \o FormatZeroPadded(last_time, 10)]

BatchFile(batch_number) == [kind |-> "batch", name |-> FormatZeroPadded(batch_number, 7)]

\* Three files of time periods, three shuffled files, and two names that the
\* patterns do not fit: an hour 30 and a batch number of 8 digits.
DirectoryPool ==
    {TimeFile(2017010100, 2017010121), TimeFile(2017010200, 2017010221),
     TimeFile(2016123121, 2017010100), TimeFile(2017010130, 2017010221),
     BatchFile(5), BatchFile(10), BatchFile(1000), BatchFile(10000000)}

Listings ==
    {l \in SeqsUpTo(DirectoryPool, MaxListing) :
        \A i, j \in DOMAIN l : i # j => l[i] # l[j]}

\* (first, last) valid times: 2017-01-01 00 to 21; 2017-01-01 21 to
\* 2017-01-02 00; 2016-12-31 21 to 2017-01-02 21; 2017-02-01 00; last < first.
TimeQueries ==
    {<<1483228800, 1483304400>>, <<1483304400, 1483315200>>,
     <<1483218000, 1483390800>>, <<1485907200, 1485907200>>,
     <<1483304400, 1483228800>>}

BatchQueries == {<<0, 7>>, <<6, 1000>>, <<11, 20>>, <<10, 5>>, <<-1, 5>>}

FinderCalls ==
    {[shuffled |-> FALSE, first_valid_time_unix_sec |-> Some(q[1]),
      last_valid_time_unix_sec |-> Some(q[2]),
      first_batch_number |-> None, last_batch_number |-> None] : q \in TimeQueries}
    \cup {[shuffled |-> TRUE, first_valid_time_unix_sec |-> None,
           last_valid_time_unix_sec |-> None,
           first_batch_number |-> Some(q[1]), last_batch_number |-> Some(q[2])] :
            q \in BatchQueries}

InitFind ==
    /\ generator = IdleGenerator
    /\ manyreader = IdleManyReader
    /\ file = NoFile
    /\ before = NoFile
    /\ written = <<>>
    /\ call = [op |-> "none"]
    /\ result = NoResult
    /\ lookup = IdleLookup
    /\ enc = IdleEnc
    /\ augmenter = IdleAugmenter
    /\ factory = IdleFactory
    /\ \E listing \in Listings, args \in FinderCalls :
            finder = [pc |-> "call", listing |-> listing, args |-> args]

Unwrap(x) == IF x = None THEN 0 ELSE x[1]

FindManyFiles ==
    /\ finder.pc = "call"
    /\ LET out == find_many_files(finder.listing, finder.args.shuffled,
                        Unwrap(finder.args.first_valid_time_unix_sec),
                        Unwrap(finder.args.last_valid_time_unix_sec),
                        Unwrap(finder.args.first_batch_number),
                        Unwrap(finder.args.last_batch_number))
       IN  finder' = [pc |-> "done", listing |-> finder.listing, args |-> finder.args,
                      raised |-> out.raised, value |-> out.value]
    /\ UNCHANGED <<file, before, written, call, result, lookup, enc, augmenter, factory, generator, manyreader>>

NextFind == FindManyFiles

SpecFind == InitFind /\ [][NextFind]_vars

(***************************************************************************)
(* _do_data_augmentation, one check and then one pass of a loop at a time  *)
(***************************************************************************)
MaxBatch == 2           \* examples in the batch
MaxTranslations == 2    \* translations; also rotations and noisings

\* Example i of the batch has class i of 3, so that no two rows are alike.
TargetRow(i) == [k \in 1..3 |-> IF k = i THEN 1 ELSE 0]

Batches ==
    {[predictor_matrix |-> [i \in 1..e |-> Original(i)],
      target_matrix |-> [i \in 1..e |-> TargetRow(i)]] : e \in 1..MaxBatch}

XTranslations == {None} \cup {Some(x) : x \in SeqsUpTo({-1, 0}, MaxTranslations)}

YTranslations == {None} \cup {Some(y) : y \in SeqsUpTo({0, 2}, MaxTranslations)}

RotationAngles == {None} \cup {Some(r) : r \in {Slice(<<90, -15, 30>>, 0, n) : n \in 1..MaxTranslations}}

\* (noise_standard_deviation, num_noisings)
Noisings ==
    {<<None, 0>>, <<None, 1>>, <<Some(1), -1>>}
    \cup {<<Some(1), n>> : n \in 1..MaxTranslations}

InitAugment ==
    /\ generator = IdleGenerator
    /\ manyreader = IdleManyReader
    /\ file = NoFile
    /\ before = NoFile
    /\ written = <<>>
    /\ call = [op |-> "none"]
    /\ result = NoResult
    /\ lookup = IdleLookup
    /\ enc = IdleEnc
    /\ finder = IdleFinder
    /\ factory = IdleFactory
    /\ \E batch \in Batches, x \in XTranslations, y \in YTranslations,
          r \in RotationAngles, n \in Noisings :
            augmenter = AugmentationFrame(batch.predictor_matrix, batch.target_matrix,
                                          x, y, r, n[1], n[2])

AugmentCheck ==
    /\ augmenter.pc = "check"
    /\ augmenter' = CheckArguments(augmenter)
    /\ UNCHANGED <<file, before, written, call, result, lookup, enc, finder, factory, generator, manyreader>>

AugmentTranslate ==
    /\ augmenter.pc = "augment"
    /\ augmenter.num_copies < augmenter.num_translations
    /\ augmenter' = TranslateOnce(augmenter)
    /\ UNCHANGED <<file, before, written, call, result, lookup, enc, finder, factory, generator, manyreader>>

AugmentRotate ==
    /\ augmenter.pc = "augment"
    /\ augmenter.num_copies >= augmenter.num_translations
    /\ augmenter.num_copies < augmenter.num_translations + augmenter.num_rotations
    /\ augmenter' = RotateOnce(augmenter)
    /\ UNCHANGED <<file, before, written, call, result, lookup, enc, finder, factory, generator, manyreader>>

AugmentNoise ==
    /\ augmenter.pc = "augment"
    /\ augmenter.num_copies >= augmenter.num_translations + augmenter.num_rotations
    /\ augmenter.num_copies < augmenter.num_translations + augmenter.num_rotations
                                    + augmenter.num_noisings
    /\ \E draw \in 1..2 : augmenter' = NoiseOnce(augmenter, draw)
    /\ UNCHANGED <<file, before, written, call, result, lookup, enc, finder, factory, generator, manyreader>>

AugmentReturn ==
    /\ augmenter.pc = "augment"
    /\ augmenter.num_copies >= augmenter.num_translations + augmenter.num_rotations
                                    + augmenter.num_noisings
    /\ augmenter' = [augmenter EXCEPT !.pc = "done"]
    /\ UNCHANGED <<file, before, written, call, result, lookup, enc, finder, factory, generator, manyreader>>

NextAugment ==
    AugmentCheck \/ AugmentTranslate \/ AugmentRotate \/ AugmentNoise \/ AugmentReturn

SpecAugment == InitAugment /\ [][NextAugment]_vars

(***************************************************************************)
(* create_examples on a disk with or without the files of the valid time   *)
(***************************************************************************)
MaxPoints == 2    \* max_num_examples

FactoryTimes == {0, 10800}

Disks ==
    {fronts \cup predictors :
        fronts \in SUBSET {[kind |-> "front", time |-> t] : t \in FactoryTimes},
        predictors \in SUBSET {[kind |-> "predictor", time |-> t] : t \in FactoryTimes}}

\* Fractions in percent: none, two classes only, all points without front,
\* all points on cold fronts.
ClassFractions == {None, Some(<<50, 50>>), Some(<<100, 0, 0>>), Some(<<0, 0, 100>>)}

MaskOf(Value(_, _)) ==
    Array([r \in 1..NumGridRows |-> Array([c \in 1..NumGridColumns |-> Value(r, c)])])

\* No mask; the cells off the first row and column; no cell; the cold front
\* only; a mask with a cell of 2.
Masks ==
    {None,
     Some(MaskOf(LAMBDA r, c : IF r > 1 /\ c > 1 THEN 1 ELSE 0)),
     Some(MaskOf(LAMBDA r, c : 0)),
     Some(MaskOf(LAMBDA r, c : IF r = NumGridRows /\ c = NumGridColumns THEN 1 ELSE 0)),
     Some(MaskOf(LAMBDA r, c : IF r = 1 /\ c = 1 THEN 2 ELSE 1))}

FactoryCalls ==
    [valid_time_unix_sec : FactoryTimes,
     predictor_names : {<<"temperature_kelvins">>},
     pressure_levels_mb : {<<1000>>},
     num_half_rows : {1},
     num_half_columns : {1},
     dilation_distance_metres : {40000},
     class_fractions : ClassFractions,
     max_num_examples : 1..MaxPoints,
     normalization_type_string : {Z_SCORE_STRING, MINMAX_STRING},
     narr_mask_matrix : Masks]

InitFactory ==
    /\ generator = IdleGenerator
    /\ manyreader = IdleManyReader
    /\ file = NoFile
    /\ before = NoFile
    /\ written = <<>>
    /\ call = [op |-> "none"]
    /\ result = NoResult
    /\ lookup = IdleLookup
    /\ enc = IdleEnc
    /\ finder = IdleFinder
    /\ augmenter = IdleAugmenter
    /\ \E disk \in Disks, args \in FactoryCalls :
            factory = [pc |-> "call", disk |-> disk, args |-> args]

\* The call of factory with sampled left by its sampling step.
FactoryOutcome(sampled) ==
    LET a == factory.args
    IN  create_examples(factory.disk, a.valid_time_unix_sec,
                        a.predictor_names, a.pressure_levels_mb, a.num_half_rows,
                        a.num_half_columns, a.dilation_distance_metres,
                        a.class_fractions, a.max_num_examples,
                        a.normalization_type_string, a.narr_mask_matrix, sampled)

\* What the sampling step can leave, for a call that gets to it; a call that
\* returns or raises before it draws nothing.
FactorySamples ==
    IF FactoryOutcome(Some(<<>>)).value = None THEN {None}
    ELSE PossibleSamples(
             dilate_ternary_target_images(FrontLabels, factory.args.dilation_distance_metres),
             factory.args.class_fractions, factory.args.max_num_examples,
             factory.args.narr_mask_matrix)

CreateExamples ==
    /\ factory.pc = "call"
    /\ \E sampled \in FactorySamples :
          LET out == FactoryOutcome(sampled)
          IN  factory' = [pc |-> "done", disk |-> factory.disk, args |-> factory.args,
                          raised |-> out.raised, value |-> out.value]
    /\ UNCHANGED <<file, before, written, call, result, lookup, enc, finder, augmenter, generator, manyreader>>

NextFactory == CreateExamples

SpecFactory == InitFactory /\ [][NextFactory]_vars

(***************************************************************************)
(* downsized_generator_from_scratch, one pass of its loops at a time       *)
(***************************************************************************)
MaxTimes == 2     \* valid times in the period
MaxYields == 2    \* batches pulled from one generator

\* The cells of a time in each class: fronts at the even times only.
CellsOfTime(valid_time_unix_sec) ==
    IF (valid_time_unix_sec \div TIME_INTERVAL_SECONDS) % 2 = 0 THEN <<12, 6, 6>>
    ELSE <<12, 0, 0>>

GeneratorTimes == Range(range_and_interval_to_list(0, (MaxTimes - 1) * TIME_INTERVAL_SECONDS, TIME_INTERVAL_SECONDS))

GeneratorDisks ==
    {fronts \cup predictors :
        fronts \in SUBSET {[kind |-> "front", time |-> t] : t \in GeneratorTimes},
        predictors \in SUBSET {[kind |-> "predictor", time |-> t] : t \in GeneratorTimes}}

ScratchCall(last_time, class_fractions, num_examples_per_batch, num_examples_per_time, narr_mask_matrix) ==
    [first_time_unix_sec |-> 0, last_time_unix_sec |-> last_time,
     class_fractions |-> class_fractions,
     num_examples_per_batch |-> num_examples_per_batch,
     num_examples_per_time |-> num_examples_per_time,
     narr_mask_matrix |-> narr_mask_matrix]

\* Calls that pass the checks, three or two classes, one or two times in
\* memory, no mask or an empty one; and four calls that fail a check each.
ScratchCalls ==
    {ScratchCall(t, f, 16, n, m) :
        t \in GeneratorTimes, f \in {<<50, 25, 25>>, <<50, 50>>}, n \in {8, 16},
        m \in {None, Some(MaskOf(LAMBDA r, c : 0))}}
    \cup {ScratchCall(t, <<100>>, 16, 8, None) : t \in GeneratorTimes}
    \cup {ScratchCall(t, <<50, 50>>, 15, 8, None) : t \in GeneratorTimes}
    \cup {ScratchCall(t, <<50, 50>>, 16, 1, None) : t \in GeneratorTimes}
    \cup {ScratchCall(t, <<50, 50>>, 16, 8,
                      Some(MaskOf(LAMBDA r, c : IF r = 1 /\ c = 1 THEN 2 ELSE 1))) :
            t \in GeneratorTimes}

FullCalls ==
    [first_time_unix_sec : {0}, last_time_unix_sec : GeneratorTimes,
     num_classes : {2, 3}, num_times_per_batch : {3, 4}]

InitScratch ==
    /\ manyreader = IdleManyReader
    /\ file = NoFile
    /\ before = NoFile
    /\ written = <<>>
    /\ call = [op |-> "none"]
    /\ result = NoResult
    /\ lookup = IdleLookup
    /\ enc = IdleEnc
    /\ finder = IdleFinder
    /\ augmenter = IdleAugmenter
    /\ factory = IdleFactory
    /\ \E disk \in GeneratorDisks :
          \/ \E args \in ScratchCalls :
                generator = ScratchFrame(args, disk, [t \in GeneratorTimes |-> CellsOfTime(t)])
          \/ \E args \in FullCalls :
                generator = FullFrame(args, disk, [t \in GeneratorTimes |-> CellsOfTime(t)])

FrontFileAtCursor ==
    FindFile(generator.disk, "front",
             Item(generator.valid_times_unix_sec, generator.time_index), FALSE).value

ShuffledTimes ==
    LET times == range_and_interval_to_list(
                     generator.args.first_time_unix_sec,
                     generator.args.last_time_unix_sec, TIME_INTERVAL_SECONDS)
    IN  Arrangements(Range(times), Len(times))

StartFull ==
    /\ generator.pc = "start"
    /\ generator.kind = "full"
    /\ \E shuffled_times \in ShuffledTimes : generator' = FullStart(generator, shuffled_times)
    /\ UNCHANGED <<file, before, written, call, result, lookup, enc, finder, augmenter, factory, manyreader>>

YieldFull ==
    /\ generator.pc = "refill"
    /\ generator.kind = "full"
    /\ ~(generator.num_times_in_memory < generator.num_times_needed_in_memory)
    /\ generator' = FullYield(generator)
    /\ UNCHANGED <<file, before, written, call, result, lookup, enc, finder, augmenter, factory, manyreader>>

StartScratch ==
    /\ generator.pc = "start"
    /\ generator.kind = "scratch"
    /\ LET times == range_and_interval_to_list(
                        generator.args.first_time_unix_sec,
                        generator.args.last_time_unix_sec, TIME_INTERVAL_SECONDS)
       IN  \E shuffled_times \in Arrangements(Range(times), Len(times)) :
               generator' = ScratchStart(generator, shuffled_times)
    /\ UNCHANGED <<file, before, written, call, result, lookup, enc, finder, augmenter, factory, manyreader>>

SkipTime ==
    /\ generator.pc = "refill"
    /\ generator.num_times_in_memory < generator.num_times_needed_in_memory
    /\ ~isfile(generator.disk, FrontFileAtCursor)
    /\ generator' = ScratchSkip(generator)
    /\ UNCHANGED <<file, before, written, call, result, lookup, enc, finder, augmenter, factory, manyreader>>

ReadTime ==
    /\ generator.pc = "refill"
    /\ generator.num_times_in_memory < generator.num_times_needed_in_memory
    /\ isfile(generator.disk, FrontFileAtCursor)
    /\ generator' = ScratchRead(generator)
    /\ UNCHANGED <<file, before, written, call, result, lookup, enc, finder, augmenter, factory, manyreader>>

SamplePoints ==
    /\ generator.pc = "refill"
    /\ generator.kind = "scratch"
    /\ ~(generator.num_times_in_memory < generator.num_times_needed_in_memory)
    /\ generator' = ScratchSample(generator)
    /\ UNCHANGED <<file, before, written, call, result, lookup, enc, finder, augmenter, factory, manyreader>>

PullAgain ==
    /\ generator.pc = "yielded"
    /\ generator.num_yields < MaxYields
    /\ generator' = [generator EXCEPT !.pc = "refill"]
    /\ UNCHANGED <<file, before, written, call, result, lookup, enc, finder, augmenter, factory, manyreader>>

NextScratch ==
    \/ StartScratch \/ StartFull \/ SkipTime \/ ReadTime
    \/ SamplePoints \/ YieldFull \/ PullAgain

SpecScratch == InitScratch /\ [][NextScratch]_vars

(***************************************************************************)
(* downsized_generator_from_example_files, one pass of a loop at a time    *)
(***************************************************************************)
MaxFiles == 3      \* shuffled files in the directory

\* The examples of the shuffled file of a batch number: 20 at the first
\* time, 9 at the second, or 3 at the first and 4 at the second.
StoredExamples(batch_number) ==
    LET valid_times ==
            CASE batch_number % 3 = 0 -> [k \in 1..20 |-> 0]
              [] batch_number % 3 = 1 -> [k \in 1..9 |-> TIME_INTERVAL_SECONDS]
              [] OTHER -> [k \in 1..7 |-> IF k <= 3 THEN 0 ELSE TIME_INTERVAL_SECONDS]
    IN  [k \in DOMAIN valid_times |-> StoredExample(batch_number, k - 1, valid_times[k])]

\* The directory listings: any of the files, in ascending order.
StoreListings ==
    {SelectSeq([k \in 1..MaxFiles |-> BatchFile(k - 1)],
               LAMBDA f : _file_name_to_batch_number(f) \in present) :
        present \in SUBSET (0..(MaxFiles - 1))}

StoreOf(listing) ==
    [f \in Range(listing) |-> StoredExamples(_file_name_to_batch_number(f))]

\* Periods of the first time, both times, the second time, a later time, and
\* a last time before the first.
StorePeriods ==
    {<<0, 0>>, <<0, TIME_INTERVAL_SECONDS>>, <<TIME_INTERVAL_SECONDS, TIME_INTERVAL_SECONDS>>,
     <<2 * TIME_INTERVAL_SECONDS, 2 * TIME_INTERVAL_SECONDS>>, <<TIME_INTERVAL_SECONDS, 0>>}

StoreCall(period, num_classes, num_examples_per_batch) ==
    [first_time_unix_sec |-> period[1], last_time_unix_sec |-> period[2],
     num_classes |-> num_classes, num_examples_per_batch |-> num_examples_per_batch]

StoreCalls ==
    {StoreCall(p, c, MIN_EXAMPLES_PER_BATCH) : p \in StorePeriods, c \in {2, 3}}
    \cup {StoreCall(<<0, 0>>, 4, MIN_EXAMPLES_PER_BATCH),
          StoreCall(<<0, 0>>, 3, MIN_EXAMPLES_PER_BATCH - 1)}

\* Orders that numpy.random.shuffle can leave batch_indices in: as they
\* were, reversed, and moved round by one.
ShuffledBatchIndices(num_examples_per_batch) ==
    LET n == num_examples_per_batch
    IN  {[k \in 1..n |-> k - 1], [k \in 1..n |-> n - k], [k \in 1..n |-> k % n]}

InitStore ==
    /\ manyreader = IdleManyReader
    /\ file = NoFile
    /\ before = NoFile
    /\ written = <<>>
    /\ call = [op |-> "none"]
    /\ result = NoResult
    /\ lookup = IdleLookup
    /\ enc = IdleEnc
    /\ finder = IdleFinder
    /\ augmenter = IdleAugmenter
    /\ factory = IdleFactory
    /\ \E listing \in StoreListings, args \in StoreCalls :
            generator = StoreFrame(args, listing, StoreOf(listing))

StartStore ==
    /\ generator.pc = "start"
    /\ LET names == FoundExampleFiles(generator.listing).value
       IN  \E shuffled_names \in Arrangements(Range(names), Len(names)) :
                generator' = StoreStart(generator, shuffled_names)
    /\ UNCHANGED <<file, before, written, call, result, lookup, enc, finder, augmenter, factory, manyreader>>

ReadStoreFile ==
    /\ generator.pc = "refill"
    /\ generator.num_examples_in_memory < generator.args.num_examples_per_batch
    /\ generator' = StoreRead(generator)
    /\ UNCHANGED <<file, before, written, call, result, lookup, enc, finder, augmenter, factory, manyreader>>

YieldStore ==
    /\ generator.pc = "refill"
    /\ ~(generator.num_examples_in_memory < generator.args.num_examples_per_batch)
    /\ \E batch_indices \in ShuffledBatchIndices(generator.args.num_examples_per_batch) :
            generator' = StoreYield(generator, batch_indices)
    /\ UNCHANGED <<file, before, written, call, result, lookup, enc, finder, augmenter, factory, manyreader>>

PullStoreAgain ==
    /\ generator.pc = "yielded"
    /\ generator.num_yields < MaxYields
    /\ generator' = StoreLoopTop(generator)
    /\ UNCHANGED <<file, before, written, call, result, lookup, enc, finder, augmenter, factory, manyreader>>

NextStore == StartStore \/ ReadStoreFile \/ YieldStore \/ PullStoreAgain

SpecStore == InitStore /\ [][NextStore]_vars

(***************************************************************************)
(* read_specific_examples_many_files, one pass of its loop at a time       *)
(***************************************************************************)
MaxRequested == 3  \* identifiers in example_id_strings

\* The file of the examples of one valid time.
FileOfTime(valid_time_unix_sec) ==
    [kind |-> "time",
     name |-> unix_sec_to_string(valid_time_unix_sec) \o <<"-">>
                \o unix_sec_to_string(valid_time_unix_sec)]

\* The examples that the file of a valid time can hold: those of the pool
\* at that time, all in either order or, at the second time, the first only.
ContentsOfTime(valid_time_unix_sec) ==
    IF valid_time_unix_sec = 0 THEN {<<Example1>>}
    ELSE {<<Example2, Example3>>, <<Example3, Example2>>, <<Example2>>}

\* The directories: for each of the two valid times no file or one file.
ManyDisks ==
    UNION {
        {[name \in {FileOfTime(t) : t \in times} |->
            CreateFile(ExampleDict(BaseSchema,
                IF name = FileOfTime(0) THEN <<Example1>> ELSE later))] :
            later \in ContentsOfTime(TIME_INTERVAL_SECONDS)} :
        times \in SUBSET {0, TIME_INTERVAL_SECONDS}}

ManyRequests == SeqsUpTo(IdPool, MaxRequested) \ {<<>>}

InitMany ==
    /\ generator = IdleGenerator
    /\ file = NoFile
    /\ before = NoFile
    /\ written = <<>>
    /\ call = [op |-> "none"]
    /\ result = NoResult
    /\ lookup = IdleLookup
    /\ enc = IdleEnc
    /\ finder = IdleFinder
    /\ augmenter = IdleAugmenter
    /\ factory = IdleFactory
    /\ \E disk \in ManyDisks, example_id_strings \in ManyRequests :
            manyreader = ManyFrame(disk, example_id_strings)

ReadManyStart ==
    /\ manyreader.pc = "start"
    /\ manyreader' = ManyStart(manyreader)
    /\ UNCHANGED <<file, before, written, call, result, lookup, enc, finder, augmenter, factory, generator>>

ReadManyTime ==
    /\ manyreader.pc = "loop"
    /\ manyreader.num_times_read < Len(manyreader.unique_times_unix_sec)
    /\ manyreader' = ManyReadTime(manyreader)
    /\ UNCHANGED <<file, before, written, call, result, lookup, enc, finder, augmenter, factory, generator>>

ReadManyReturn ==
    /\ manyreader.pc = "loop"
    /\ ~(manyreader.num_times_read < Len(manyreader.unique_times_unix_sec))
    /\ manyreader' = ManyReturn(manyreader)
    /\ UNCHANGED <<file, before, written, call, result, lookup, enc, finder, augmenter, factory, generator>>

NextMany == ReadManyStart \/ ReadManyTime \/ ReadManyReturn

SpecMany == InitMany /\ [][NextMany]_vars

(***************************************************************************)
(* find_example_ids, one stage at a time                                   *)
(***************************************************************************)
InitLookup ==
    /\ generator = IdleGenerator
    /\ manyreader = IdleManyReader
    /\ file = NoFile
    /\ before = NoFile
    /\ written = <<>>
    /\ call = [op |-> "none"]
    /\ result = NoResult
    /\ finder = IdleFinder
    /\ augmenter = IdleAugmenter
    /\ factory = IdleFactory
    /\ enc = IdleEnc
    /\ \E all \in SeqsUpTo(IdPool, MaxAll), desired \in SeqsUpTo(IdPool, MaxDesired),
          allow_missing \in BOOLEAN :
            lookup = LookupFrame(all, desired, allow_missing)

LookupCheckUnique ==
    /\ lookup.pc = "check_unique"
    /\ lookup' = CheckUnique(lookup)
    /\ UNCHANGED <<file, before, written, call, result, enc, finder, augmenter, factory, generator, manyreader>>

LookupSearch ==
    /\ lookup.pc = "search"
    /\ lookup' = Search(lookup)
    /\ UNCHANGED <<file, before, written, call, result, enc, finder, augmenter, factory, generator, manyreader>>

LookupCompare ==
    /\ lookup.pc = "compare"
    /\ lookup' = Compare(lookup)
    /\ UNCHANGED <<file, before, written, call, result, enc, finder, augmenter, factory, generator, manyreader>>

NextLookup == LookupCheckUnique \/ LookupSearch \/ LookupCompare

SpecLookup == InitLookup /\ [][NextLookup]_vars

(***************************************************************************)
(* Identifier encoding and decoding of two (time, row, column) triples     *)
(***************************************************************************)
IdTimes == {-1, 0, 9, 1000000000, 2147483647}
IdRows == {0, 9, 10, 999, 1000}
IdColumns == {-1, 0, 2, 10, 1000}
IdTriples == IdTimes \X IdRows \X IdColumns

InitIds ==
    /\ generator = IdleGenerator
    /\ manyreader = IdleManyReader
    /\ file = NoFile
    /\ before = NoFile
    /\ written = <<>>
    /\ call = [op |-> "none"]
    /\ result = NoResult
    /\ finder = IdleFinder
    /\ augmenter = IdleAugmenter
    /\ factory = IdleFactory
    /\ lookup = IdleLookup
    /\ \E a \in IdTriples, b \in IdTriples :
            enc = [IdleEnc EXCEPT !.pc = "input", !.triples = <<a, b>>]

\* create_example_id with check_args: a negative row or column is refused.
Encode ==
    /\ enc.pc = "input"
    /\ enc' = IF \E k \in DOMAIN enc.triples :
                    enc.triples[k][2] < 0 \/ enc.triples[k][3] < 0
              THEN [enc EXCEPT !.pc = "done", !.raised = "ValueError"]
              ELSE [enc EXCEPT !.pc = "encoded",
                        !.ids = [k \in DOMAIN enc.triples |->
                                    create_example_id(enc.triples[k][1], enc.triples[k][2],
                                                      enc.triples[k][3])]]
    /\ UNCHANGED <<file, before, written, call, result, lookup, finder, augmenter, factory, generator, manyreader>>

Decode ==
    /\ enc.pc = "encoded"
    /\ enc' = [enc EXCEPT !.pc = "done",
                   !.decoded = [k \in DOMAIN enc.ids |-> example_id_to_metadata(enc.ids[k])]]
    /\ UNCHANGED <<file, before, written, call, result, lookup, finder, augmenter, factory, generator, manyreader>>

NextIds == Encode \/ Decode

SpecIds == InitIds /\ [][NextIds]_vars

(***************************************************************************)
(* Properties of the store                                                 *)
(***************************************************************************)
IsAppend == call.op = "write_file" /\ call.append_to_file
IsCreate == call.op = "write_file" /\ ~call.append_to_file
IsRead == call.op = "read_file"

NumExamplesIn(example_dict) == Len(example_dict[VALID_TIMES_KEY])

\* C1: an append whose channel names, pressure levels, normalization type or
\* mask differ from those recorded in the file fails, and the file is after
\* the failed append what it was before: same example count, same rows.
C1_AppendSchemaMismatchFails ==
    (/\ IsAppend
     /\ before.exists
     /\ \/ before.narr_predictor_names # call.example_dict.narr_predictor_names
        \/ before.pressure_levels_mb # call.example_dict.pressure_levels_mb
        \/ before.normalization_type_string # call.example_dict.normalization_type_string
        \/ before.narr_mask_matrix # call.example_dict.narr_mask_matrix)
    => /\ result.raised = "AssertionError"
       /\ file.exists
       /\ NumExamples(file) = NumExamples(before)
       /\ file.variables = before.variables
       /\ file = before

\* An append to a file of two examples was refused for its mask alone.
C1_Witness ==
    /\ IsAppend
    /\ before.exists
    /\ NumExamples(before) = 2
    /\ before.narr_mask_matrix # call.example_dict.narr_mask_matrix
    /\ SchemaOf(before) = [SchemaOf(call.example_dict) EXCEPT
                              !.narr_mask_matrix = before.narr_mask_matrix]
    /\ result.raised = "AssertionError"
    /\ file = before

\* C2: an append whose dilation distance differs from the file's by more
\* than 1e-6 m (here: by any number of half metres) fails and writes nothing.
C2_AppendDilationMismatchFails ==
    (/\ IsAppend
     /\ before.exists
     /\ before.dilation_distance_metres # call.example_dict.dilation_distance_metres)
    => /\ result.raised = "AssertionError"
       /\ file = before

\* C3: a successful append of k examples to a file of n examples makes the
\* count n + k, puts the new rows at [n, n + k) of every example-indexed
\* array, and leaves rows [0, n) and the file-level schema as they were.
C3_AppendGrowsByNewRowsOnly ==
    (IsAppend /\ result.raised = "none")
    => LET n == NumExamples(before)
           k == NumExamplesIn(call.example_dict)
       IN  /\ before.exists /\ file.exists
           /\ NumExamples(file) = n + k
           /\ \A i \in DOMAIN MAIN_KEYS :
                LET key == MAIN_KEYS[i]
                IN  /\ Len(file.variables[key]) = n + k
                    /\ SubSeq(file.variables[key], 1, n) = before.variables[key]
                    /\ SubSeq(file.variables[key], n + 1, n + k)
                           = StoredRows(key, call.example_dict[key])
           /\ SchemaOf(file) = SchemaOf(before)

\* Two examples were appended to a file that held one.
C3_Witness ==
    /\ IsAppend
    /\ result.raised = "none"
    /\ NumExamples(before) = 1
    /\ NumExamplesIn(call.example_dict) = 2
    /\ NumExamples(file) = 3
    /\ call.example_dict[VALID_TIMES_KEY] # <<0, 0>>

RECURSIVE RowsWritten(_, _)
RowsWritten(dicts, key) ==
    IF dicts = <<>> THEN <<>>
    ELSE dicts[1][key] \o RowsWritten(Tail(dicts), key)

IsFullRead ==
    /\ IsRead
    /\ ~call.options.metadata_only
    /\ call.options.id_strings_to_keep = None
    /\ call.options.first_time_to_keep_unix_sec = None
    /\ call.options.last_time_to_keep_unix_sec = None

\* C4: a full read with no filter returns, for every example-indexed array,
\* the rows of the create followed by the rows of each append, in written
\* order and as float32 (predictors, normalization parameters) or int32
\* holds them, together with the schema written at creation.
C4_ReadReturnsWrittenRows ==
    (IsFullRead /\ file.exists)
    => /\ written # <<>>
       /\ result.raised = "none"
       /\ result.value =
            Some(SchemaOf(written[1])
                 @@ [key \in Range(MAIN_KEYS) |->
                        StoredRows(key, RowsWritten(written, key))])

\* A create of two examples, an append of a different one, then a full read.
C4_Witness ==
    /\ IsFullRead
    /\ Len(written) = 2
    /\ NumExamplesIn(written[1]) = 2
    /\ written[1][VALID_TIMES_KEY] = <<10800, 0>>
    /\ written[2][ROW_INDICES_KEY] = <<100>>
    /\ result.value # None
    /\ result.value[1].row_indices = <<100, 9, 100>>
    /\ result.value[1].predictor_matrix[3] = <<<<<<31, 16777216>>>>>>

\* C5: a create at a path where a store file exists fails and leaves that
\* file's examples and schema intact.
C5_CreateOverExistingFails ==
    (IsCreate /\ before.exists)
    => /\ result.raised # "none"
       /\ file = before

\* C5, amended: a create at a path where a store file exists succeeds and
\* replaces it: the file then holds the schema and the rows of the new
\* dictionary and nothing of the old file.
C5_CreateReplacesExisting ==
    (IsCreate /\ before.exists)
    => /\ result.raised = "none"
       /\ file = CreateFile(call.example_dict)
       /\ NumExamples(file) = NumExamplesIn(call.example_dict)
       /\ SchemaOf(file) = SchemaOf(call.example_dict)

\* A file of three examples was replaced by one of one example with another mask.
C5_Witness ==
    /\ IsCreate
    /\ before.exists
    /\ NumExamples(before) = 3
    /\ NumExamples(file) = 1
    /\ file.narr_mask_matrix # before.narr_mask_matrix
    /\ result.raised = "none"

FileIds(f) ==
    create_example_ids(f.variables[VALID_TIMES_KEY], f.variables[ROW_INDICES_KEY],
                       f.variables[COLUMN_INDICES_KEY])

IsReadById == IsRead /\ call.options.id_strings_to_keep # None

AbsentIds == {s \in Range(call.options.id_strings_to_keep[1]) : s \notin Range(FileIds(file))}

HasDuplicates(ids) == \E i, j \in DOMAIN ids : i < j /\ ids[i] = ids[j]

\* C7: with a repeated identifier in all_id_strings the call raises, for
\* every desired list and either allow_missing, and it raises before the
\* sort and the search: these stages are never entered and leave no result.
C7_DuplicatesRaiseBeforeSearch ==
    HasDuplicates(lookup.all_id_strings)
    => /\ lookup.pc \in {"check_unique", "done"}
       /\ lookup.sort_indices = None
       /\ (lookup.pc = "done"
            => /\ lookup.raised = "ValueError"
               /\ lookup.message.kind = "duplicates"
               /\ lookup.desired_indices = <<>>)

\* The call raised for a duplicate although allow_missing was set and every
\* desired identifier was there.
C7_Witness ==
    /\ lookup.pc = "done"
    /\ HasDuplicates(lookup.all_id_strings)
    /\ lookup.allow_missing
    /\ lookup.desired_id_strings # <<>>
    /\ Range(lookup.desired_id_strings) \subseteq Range(lookup.all_id_strings)
    /\ lookup.raised = "ValueError"
    /\ lookup.sort_indices = None

\* The index a linear search finds: the i with all[i] = s, -1 without one.
LinearSearch(all, s) ==
    IF \E i \in DOMAIN all : all[i] = s
    THEN (CHOOSE i \in DOMAIN all : all[i] = s) - 1
    ELSE -1

\* C8: for unique all_id_strings the call returns, in the order of the
\* desired list, the indices of a linear search: with allow_missing the
\* index or -1; without it the indices when all are present, a failure
\* when one is absent.
C8_LookupIsLinearSearch ==
    (lookup.pc = "done" /\ ~HasDuplicates(lookup.all_id_strings))
    => LET expected == [k \in DOMAIN lookup.desired_id_strings |->
                           LinearSearch(lookup.all_id_strings, lookup.desired_id_strings[k])]
           all_present == Range(lookup.desired_id_strings) \subseteq Range(lookup.all_id_strings)
       IN  IF lookup.allow_missing \/ all_present
           THEN lookup.raised = "none" /\ lookup.desired_indices = expected
           ELSE lookup.raised # "none"

(***************************************************************************)
(* Properties of the identifiers                                           *)
(***************************************************************************)
\* Within the field widths: time in [0, 10^10), row and column in [0, 1000).
InFieldWidths(triple) ==
    /\ triple[1] >= 0 /\ Len(Digits(triple[1])) <= TimeWidth
    /\ triple[2] >= 0 /\ Len(Digits(triple[2])) <= IndexWidth
    /\ triple[3] >= 0 /\ Len(Digits(triple[3])) <= IndexWidth

\* C9: decoding the identifier of a triple within the field widths gives the
\* triple back; hence distinct triples have distinct identifiers.
C9_IdRoundTrip ==
    /\ (enc.pc = "done" /\ enc.raised = "none")
        => \A k \in DOMAIN enc.triples :
              InFieldWidths(enc.triples[k])
              => enc.decoded[k] = [raised |-> "none", value |-> enc.triples[k]]
    /\ (/\ enc.pc \in {"encoded", "done"} /\ enc.raised = "none"
        /\ InFieldWidths(enc.triples[1]) /\ InFieldWidths(enc.triples[2])
        /\ enc.triples[1] # enc.triples[2])
        => enc.ids[1] # enc.ids[2]

\* A ten-digit time, and a row and a column that differ, came back as they went in.
C9_Witness ==
    /\ enc.pc = "done"
    /\ enc.triples[1] = <<2147483647, 999, 2>>
    /\ enc.triples[2] = <<0, 0, 10>>
    /\ enc.decoded[1].value = <<2147483647, 999, 2>>
    /\ enc.decoded[2].value = <<0, 0, 10>>

\* (time, row, column) order: time first, then row, then column.
TripleLess(a, b) ==
    \/ a[1] < b[1]
    \/ a[1] = b[1] /\ a[2] < b[2]
    \/ a[1] = b[1] /\ a[2] = b[2] /\ a[3] < b[3]

\* C10: for two triples within the field widths the first identifier is
\* lexicographically smaller than the second exactly when the first triple
\* precedes the second in (time, row, column) order.
C10_IdOrderIsTripleOrder ==
    (/\ enc.pc \in {"encoded", "done"} /\ enc.raised = "none"
     /\ InFieldWidths(enc.triples[1]) /\ InFieldWidths(enc.triples[2]))
    => (StrLess(enc.ids[1], enc.ids[2]) <=> TripleLess(enc.triples[1], enc.triples[2]))

\* Row 9 before row 10 at one time: the digits alone would order them the other way.
C10_Witness ==
    /\ enc.pc = "encoded"
    /\ enc.triples[1] = <<1000000000, 9, 10>>
    /\ enc.triples[2] = <<1000000000, 10, 2>>
    /\ StrLess(enc.ids[1], enc.ids[2])
    /\ ~StrLess(enc.ids[2], enc.ids[1])

(***************************************************************************)
(* Properties of the selection, the channel subset and the crop            *)
(***************************************************************************)
FirstTimeToKeep ==
    IF call.options.first_time_to_keep_unix_sec = None THEN 0
    ELSE call.options.first_time_to_keep_unix_sec[1]

LastTimeToKeep ==
    IF call.options.last_time_to_keep_unix_sec = None THEN LARGE_INTEGER
    ELSE call.options.last_time_to_keep_unix_sec[1]

\* The read's selection is well formed and no example of the file is in it:
\* a time range first <= last that holds no stored valid time, or an empty
\* identifier list on a file whose identifiers can be looked up.
SelectsNothing ==
    /\ IsRead
    /\ file.exists
    /\ IF call.options.id_strings_to_keep = None
       THEN /\ FirstTimeToKeep <= LastTimeToKeep
            /\ \A i \in DOMAIN file.variables[VALID_TIMES_KEY] :
                    \/ file.variables[VALID_TIMES_KEY][i] < FirstTimeToKeep
                    \/ file.variables[VALID_TIMES_KEY][i] > LastTimeToKeep
       ELSE /\ call.options.id_strings_to_keep[1] = <<>>
            /\ ~HasDuplicates(FileIds(file))

HasChannelRequest ==
    /\ IsRead
    /\ file.exists
    /\ call.options.predictor_names_to_keep # None
    /\ call.options.pressure_levels_to_keep_mb # None
    /\ Len(call.options.predictor_names_to_keep[1])
            = Len(call.options.pressure_levels_to_keep_mb[1])

RequestedNames == call.options.predictor_names_to_keep[1]
RequestedLevels == call.options.pressure_levels_to_keep_mb[1]
RequestedPairs == [k \in DOMAIN RequestedNames |-> <<RequestedNames[k], RequestedLevels[k]>>]

StoredPairs(f) ==
    [i \in DOMAIN f.narr_predictor_names |->
        <<f.narr_predictor_names[i], f.pressure_levels_mb[i]>>]

\* The place (from 1) of a stored pair among the file's channels.
ChannelOf(f, pair) == CHOOSE i \in DOMAIN StoredPairs(f) : StoredPairs(f)[i] = pair

IsOrographyPair(pair) == pair = <<HEIGHT_NAME, DUMMY_SURFACE_PRESSURE_MB>>

\* The central (2 * half_rows + 1) by (2 * half_columns + 1) block of a
\* window of an odd number of rows and of columns; None keeps the axis whole.
CentralBlock(window, half_rows, half_columns) ==
    LET center_row == (Len(window) + 1) \div 2
        center_column == (Len(window[1]) + 1) \div 2
        hr == IF half_rows = None THEN center_row - 1 ELSE half_rows[1]
        hc == IF half_columns = None THEN center_column - 1 ELSE half_columns[1]
    IN  [j \in 1..(2 * hr + 1) |->
            [k \in 1..(2 * hc + 1) |->
                window[center_row - hr - 1 + j][center_column - hc - 1 + k]]]

\* The stored window of example e cropped as the read asks.
CroppedStored(e) ==
    CentralBlock(file.variables[PREDICTOR_MATRIX_KEY][e],
                 call.options.num_half_rows_to_keep,
                 call.options.num_half_columns_to_keep)

\* The read returns the requested pairs in the requested order, the channels
\* of every array being the stored channels of those pairs.
ReturnsRequestedChannels ==
    /\ result.raised = "none"
    /\ result.value # None
    /\ LET d == result.value[1]
           stored(k) == ChannelOf(file, RequestedPairs[k])
       IN  /\ d.narr_predictor_names = RequestedNames
           /\ d.pressure_levels_mb = RequestedLevels
           /\ ~call.options.metadata_only =>
                /\ Len(d.predictor_matrix) = NumExamples(file)
                /\ \A e \in DOMAIN d.predictor_matrix :
                    /\ DOMAIN d.predictor_matrix[e] = DOMAIN CroppedStored(e)
                    /\ \A j \in DOMAIN d.predictor_matrix[e] :
                        /\ DOMAIN d.predictor_matrix[e][j] = DOMAIN CroppedStored(e)[j]
                        /\ \A k \in DOMAIN d.predictor_matrix[e][j] :
                              d.predictor_matrix[e][j][k] =
                                  [c \in DOMAIN RequestedPairs |->
                                      CroppedStored(e)[j][k][stored(c)]]
                    /\ d.first_normalization_param_matrix[e] =
                          [c \in DOMAIN RequestedPairs |->
                              file.variables[FIRST_NORM_PARAM_KEY][e][stored(c)]]
                    /\ d.second_normalization_param_matrix[e] =
                          [c \in DOMAIN RequestedPairs |->
                              file.variables[SECOND_NORM_PARAM_KEY][e][stored(c)]]

\* C12: a request of pairs that the file all stores returns the channels in
\* the requested order, the last axis of the predictors, both parameter
\* arrays, the names and the levels all taken at the same indices; a request
\* with a pair the file does not store fails.
C12_RequestedOrderOrFails ==
    HasChannelRequest =>
        IF \A k \in DOMAIN RequestedPairs : RequestedPairs[k] \in Range(StoredPairs(file))
        THEN ReturnsRequestedChannels
        ELSE result.raised # "none"

\* C12, amended: the same for a request without the height field at the
\* surface level, which the file need not store.
C12_RequestedOrderOrFailsButOrography ==
    (/\ HasChannelRequest
     /\ \A k \in DOMAIN RequestedPairs : ~IsOrographyPair(RequestedPairs[k]))
    => IF \A k \in DOMAIN RequestedPairs : RequestedPairs[k] \in Range(StoredPairs(file))
       THEN ReturnsRequestedChannels
       ELSE result.raised # "none"

\* A full read of the two stored channels in the other order, cropped to one
\* half row and column.
C12_Witness ==
    /\ HasChannelRequest
    /\ ~call.options.metadata_only
    /\ RequestedPairs = <<<<"height_m_asl", 850>>, <<"temperature_kelvins", 1000>>>>
    /\ call.options.num_half_rows_to_keep = Some(1)
    /\ file.narr_predictor_names = <<"temperature_kelvins", "height_m_asl">>
    /\ result.raised = "none"
    /\ result.value[1].narr_predictor_names = <<"height_m_asl", "temperature_kelvins">>
    /\ result.value[1].pressure_levels_mb = <<850, 1000>>
    /\ result.value[1].predictor_matrix[1][1][1] = <<212, 211>>
    /\ result.value[1].first_normalization_param_matrix[1] = <<1500, 280>>

\* A channel request that holds the height field at the surface level.
HasOrographyRequest ==
    /\ HasChannelRequest
    /\ \E k \in DOMAIN RequestedPairs : IsOrographyPair(RequestedPairs[k])

\* The other pairs of the request, in the requested order.
OtherRequestedPairs == SelectSeq(RequestedPairs, LAMBDA pair : ~IsOrographyPair(pair))

\* C13: a read whose request holds the height field at the surface level,
\* the other pairs being stored, returns the other channels in the requested
\* order and the orography channel after them, wherever it stood in the
\* request; the predictors of every cell and both parameter arrays have as
\* many channels as the returned list, the other channels holding the stored
\* values; and the file is after the read what it was before.
C13_OrographyComesLast ==
    HasOrographyRequest =>
        /\ file = before
        /\ (\A k \in DOMAIN OtherRequestedPairs :
                OtherRequestedPairs[k] \in Range(StoredPairs(file)))
           => /\ result.raised = "none"
              /\ result.value # None
              /\ LET d == result.value[1]
                     n == Len(d.narr_predictor_names)
                     stored(c) == ChannelOf(file, OtherRequestedPairs[c])
                 IN  /\ n = Len(OtherRequestedPairs) + 1
                     /\ Len(d.pressure_levels_mb) = n
                     /\ IsOrographyPair(<<d.narr_predictor_names[n], d.pressure_levels_mb[n]>>)
                     /\ \A c \in 1..(n - 1) :
                            <<d.narr_predictor_names[c], d.pressure_levels_mb[c]>>
                                = OtherRequestedPairs[c]
                     /\ ~call.options.metadata_only =>
                          \A e \in DOMAIN d.predictor_matrix :
                            /\ Len(d.first_normalization_param_matrix[e]) = n
                            /\ Len(d.second_normalization_param_matrix[e]) = n
                            /\ \A j \in DOMAIN d.predictor_matrix[e] :
                                \A k \in DOMAIN d.predictor_matrix[e][j] :
                                    /\ Len(d.predictor_matrix[e][j][k]) = n
                                    /\ \A c \in 1..(n - 1) :
                                           d.predictor_matrix[e][j][k][c]
                                               = CroppedStored(e)[j][k][stored(c)]

\* A full read asking for the orography channel first and a stored channel
\* second: the stored channel comes back first.
C13_Witness ==
    /\ HasOrographyRequest
    /\ ~call.options.metadata_only
    /\ RequestedPairs = <<<<"height_m_asl", 1013>>, <<"temperature_kelvins", 1000>>>>
    /\ call.options.num_half_rows_to_keep = None
    /\ NumExamples(file) = 2
    /\ result.raised = "none"
    /\ result.value[1].narr_predictor_names = <<"temperature_kelvins", "height_m_asl">>
    /\ result.value[1].pressure_levels_mb = <<1000, 1013>>
    /\ Len(result.value[1].predictor_matrix[2][5][3]) = 2
    /\ file = before

\* A full read, of every channel, that asks for a crop of rows and columns.
HasCrop ==
    /\ IsRead
    /\ file.exists
    /\ ~call.options.metadata_only
    /\ call.options.predictor_names_to_keep = None
    /\ call.options.num_half_rows_to_keep # None
    /\ call.options.num_half_columns_to_keep # None

HalfRowsToKeep == call.options.num_half_rows_to_keep[1]
HalfColumnsToKeep == call.options.num_half_columns_to_keep[1]

\* The half-window of the file's windows.
StoredHalfRowsOf(f) == (Len(f.variables[PREDICTOR_MATRIX_KEY][1]) - 1) \div 2
StoredHalfColumnsOf(f) == (Len(f.variables[PREDICTOR_MATRIX_KEY][1][1]) - 1) \div 2

\* C14: a crop of h_r half rows and h_c half columns, each positive and at
\* most the stored half-window, returns for every example the central
\* (2 h_r + 1) by (2 h_c + 1) block of the stored window, its center cell
\* being the stored window's center cell.
C14_CropIsCentralBlock ==
    (/\ HasCrop
     /\ HalfRowsToKeep >= 1 /\ HalfRowsToKeep <= StoredHalfRowsOf(file)
     /\ HalfColumnsToKeep >= 1 /\ HalfColumnsToKeep <= StoredHalfColumnsOf(file))
    => /\ result.raised = "none"
       /\ result.value # None
       /\ LET d == result.value[1]
              stored == file.variables[PREDICTOR_MATRIX_KEY]
          IN  /\ Len(d.predictor_matrix) = NumExamples(file)
              /\ \A e \in DOMAIN d.predictor_matrix :
                    /\ Len(d.predictor_matrix[e]) = 2 * HalfRowsToKeep + 1
                    /\ \A j \in DOMAIN d.predictor_matrix[e] :
                          Len(d.predictor_matrix[e][j]) = 2 * HalfColumnsToKeep + 1
                    /\ d.predictor_matrix[e] = CroppedStored(e)
                    /\ d.predictor_matrix[e][HalfRowsToKeep + 1][HalfColumnsToKeep + 1]
                          = stored[e][StoredHalfRowsOf(file) + 1][StoredHalfColumnsOf(file) + 1]

\* Windows of 5 rows and 3 columns cropped to 3 rows and 3 columns: rows 2
\* to 4 of the stored window.
C14_Witness ==
    /\ HasCrop
    /\ HalfRowsToKeep = 1 /\ HalfColumnsToKeep = 1
    /\ StoredHalfRowsOf(file) = 2 /\ StoredHalfColumnsOf(file) = 1
    /\ result.raised = "none"
    /\ Len(result.value[1].predictor_matrix[1]) = 3
    /\ result.value[1].predictor_matrix[1][1][1] = <<211, 212>>
    /\ result.value[1].predictor_matrix[1][2][2] = <<321, 322>>
    /\ result.value[1].predictor_matrix[1][3][3] = <<431, 432>>

\* C15: a read that asks for more half rows or half columns than the stored
\* windows have is rejected: it raises, and returns no predictor matrix of
\* another size than (2 h_r + 1) by (2 h_c + 1).
C15_TooLargeCropRejected ==
    (/\ HasCrop
     /\ \/ HalfRowsToKeep > StoredHalfRowsOf(file)
        \/ HalfColumnsToKeep > StoredHalfColumnsOf(file))
    => result.raised # "none"

(***************************************************************************)
(* Properties of find_many_files                                           *)
(***************************************************************************)
\* The time (the first of the period) or the batch number in a file's name.
EmbeddedNumber(f) ==
    IF f.kind = "batch" THEN _file_name_to_batch_number(f) ELSE _file_name_to_times(f)[1]

\* The file fits the call's pattern and its period overlaps the asked
\* period, or its batch number is in the asked range.
Wanted(f) ==
    IF finder.args.shuffled
    THEN /\ f.kind = "batch"
         /\ Len(f.name) = 7
         /\ ParseInt(f.name) >= finder.args.first_batch_number[1]
         /\ ParseInt(f.name) <= finder.args.last_batch_number[1]
    ELSE /\ f.kind = "time"
         /\ glob(<<f>>, FALSE) = <<f>>
         /\ _file_name_to_times(f)[1] <= finder.args.last_valid_time_unix_sec[1]
         /\ _file_name_to_times(f)[2] >= finder.args.first_valid_time_unix_sec[1]

\* C16: the files returned are in ascending order of the time or the batch
\* number in their names, whatever the order of the listing, and each of them
\* overlaps the asked period or has its batch number in the asked range.
C16_ReturnsSortedFilesInRange ==
    (finder.pc = "done" /\ finder.raised = "none")
    => /\ \A i, j \in DOMAIN finder.value :
            i < j => EmbeddedNumber(finder.value[i]) <= EmbeddedNumber(finder.value[j])
       /\ \A i \in DOMAIN finder.value : Wanted(finder.value[i])

\* C17: the call raises whenever no file of the listing fits the pattern and
\* the range, and never returns an empty list.
C17_RaisesWhenNothingMatches ==
    finder.pc = "done"
    => /\ (\A i \in DOMAIN finder.listing : ~Wanted(finder.listing[i]))
            => finder.raised = "ValueError"
       /\ finder.raised = "none" => finder.value # <<>>

\* Shuffled files 5 and 10 in the directory, batch numbers 11 to 20 asked.
C17_Witness ==
    /\ finder.pc = "done"
    /\ finder.args.shuffled
    /\ finder.listing = <<BatchFile(5), BatchFile(10)>>
    /\ finder.args.first_batch_number = Some(11)
    /\ finder.raised = "ValueError"

(***************************************************************************)
(* Properties of _do_data_augmentation                                     *)
(***************************************************************************)
Returned == augmenter.pc = "done" /\ augmenter.raised = "none"

BothTranslationsGiven ==
    augmenter.x_translations_pixels # None /\ augmenter.y_translations_pixels # None

\* The arguments the function accepts.
AcceptedArguments ==
    /\ \/ augmenter.x_translations_pixels = None /\ augmenter.y_translations_pixels = None
       \/ /\ BothTranslationsGiven
          /\ Len(augmenter.x_translations_pixels[1]) = Len(augmenter.y_translations_pixels[1])
          /\ \A i \in DOMAIN augmenter.x_translations_pixels[1] :
                ~(augmenter.x_translations_pixels[1][i] = 0
                    /\ augmenter.y_translations_pixels[1][i] = 0)
    /\ augmenter.num_noisings >= 0
    /\ augmenter.num_noisings > 0 => augmenter.noise_standard_deviation # None

\* T, R and N of the call.
GivenTranslations ==
    IF augmenter.x_translations_pixels = None THEN 0 ELSE Len(augmenter.x_translations_pixels[1])

GivenRotations ==
    IF augmenter.ccw_rotation_angles_deg = None THEN 0 ELSE Len(augmenter.ccw_rotation_angles_deg[1])

GivenExamples == Len(augmenter.given_predictor_matrix)

\* C18: a call with accepted arguments on a batch of e examples with T
\* translations, R rotations and N noisings returns e * (1 + T + R + N)
\* examples and as many target rows; the first e are the batch as given; the
\* target row at output index j is the given target row at j mod e, and the
\* example at j is the given example j mod e, or a transform of it.
C18_AugmentedBatchSize ==
    (augmenter.pc = "done" /\ AcceptedArguments) =>
        LET e == GivenExamples
            E == e * (1 + GivenTranslations + GivenRotations + augmenter.num_noisings)
        IN  /\ augmenter.raised = "none"
            /\ Len(augmenter.predictor_matrix) = E
            /\ Len(augmenter.target_matrix) = E
            /\ Slice(augmenter.predictor_matrix, 0, e) = augmenter.given_predictor_matrix
            /\ Slice(augmenter.target_matrix, 0, e) = augmenter.given_target_matrix
            /\ \A j \in 0..(E - 1) :
                  /\ Item(augmenter.target_matrix, j) = Item(augmenter.given_target_matrix, j % e)
                  /\ Item(augmenter.predictor_matrix, j).source
                        = Item(augmenter.given_predictor_matrix, j % e).source
                  /\ Item(augmenter.predictor_matrix, j).of
                        = IF j < e THEN "none" ELSE "original"

\* Two examples, with two translations, two rotations and two noisings.
C18_Witness ==
    /\ Returned
    /\ GivenExamples = 2
    /\ augmenter.num_translations = 2
    /\ augmenter.num_rotations = 2
    /\ augmenter.num_noisings = 2
    /\ Len(augmenter.target_matrix) = 14

\* Both translation arrays are given, and they differ in length or some
\* translation is of no pixel in both directions.
RejectedTranslations ==
    /\ BothTranslationsGiven
    /\ LET x == augmenter.x_translations_pixels[1]
           y == augmenter.y_translations_pixels[1]
       IN  \/ Len(x) # Len(y)
           \/ \E i \in DOMAIN x : x[i] = 0 /\ y[i] = 0

\* C19: when the x and y translation arrays differ in length, or some
\* translation has both offsets 0, the call raises, and at no point of it
\* does the batch hold anything but the examples and rows it was given.
C19_BadTranslationsFailFirst ==
    RejectedTranslations =>
        /\ augmenter.pc \in {"check", "done"}
        /\ augmenter.pc = "done" => augmenter.raised # "none"
        /\ augmenter.predictor_matrix = augmenter.given_predictor_matrix
        /\ augmenter.target_matrix = augmenter.given_target_matrix
        /\ augmenter.num_copies = 0

\* The second of two translations is of no pixel; the first is a real one.
C19_Witness ==
    /\ augmenter.pc = "done"
    /\ augmenter.raised = "ValueError"
    /\ augmenter.x_translations_pixels = Some(<<-1, 0>>)
    /\ augmenter.y_translations_pixels = Some(<<2, 0>>)
    /\ augmenter.num_noisings >= 0

\* The arrays differ in length and the call has raised.
C19_WitnessLengths ==
    /\ augmenter.pc = "done"
    /\ augmenter.raised = "TypeError"
    /\ augmenter.x_translations_pixels = Some(<<-1>>)
    /\ augmenter.y_translations_pixels = Some(<<2, 2>>)

(***************************************************************************)
(* Properties of create_examples                                           *)
(***************************************************************************)
FrontFileMissing ==
    [kind |-> "front", time |-> factory.args.valid_time_unix_sec] \notin factory.disk

PredictorFileMissing ==
    [kind |-> "predictor", time |-> factory.args.valid_time_unix_sec] \notin factory.disk

\* The arguments pass the checks at the head of the function.
FactoryArgumentsPass ==
    /\ factory.args.class_fractions # None => Len(factory.args.class_fractions[1]) = 3
    /\ factory.args.narr_mask_matrix # None =>
            check_narr_mask(factory.args.narr_mask_matrix[1]) = "none"

\* C20: a call, with arguments that pass the checks at the head of the
\* function, for a valid time whose file of front labels is missing raises
\* nothing and returns None, no example being made.
C20_MissingFrontFileReturnsNone ==
    (factory.pc = "done" /\ FactoryArgumentsPass /\ FrontFileMissing) =>
        factory.raised = "none" /\ factory.value = None

\* The front file of the time is missing, the predictor file too, while the
\* files of the other time are there; the call returned None.
C20_Witness ==
    /\ factory.pc = "done"
    /\ FactoryArgumentsPass
    /\ factory.args.valid_time_unix_sec = 10800
    /\ factory.disk = {[kind |-> "front", time |-> 0], [kind |-> "predictor", time |-> 0]}
    /\ factory.raised = "none"
    /\ factory.value = None

\* C21 as stated: a call for a valid time whose predictor file is missing
\* raises, whatever else is on the disk.
C21_MissingPredictorFileRaises ==
    (factory.pc = "done" /\ PredictorFileMissing) => factory.raised # "none"

\* C21, amended: a call for a valid time whose predictor file is missing and
\* whose file of front labels is there raises, and returns nothing.
C21_MissingPredictorFileRaisesWithFronts ==
    (factory.pc = "done" /\ PredictorFileMissing /\ ~FrontFileMissing) =>
        factory.raised # "none" /\ factory.value = None

\* Only the predictor file of the time is missing; the call raised on it.
C21_Witness ==
    /\ factory.pc = "done"
    /\ FactoryArgumentsPass
    /\ PredictorFileMissing
    /\ ~FrontFileMissing
    /\ factory.raised = "ValueError"

\* The mask given has no cell of 1.
MaskWithoutCell ==
    /\ factory.args.narr_mask_matrix # None
    /\ check_narr_mask(factory.args.narr_mask_matrix[1]) = "none"
    /\ WhereOne(factory.args.narr_mask_matrix[1]) = <<>>

\* C22: with both files of the time on the disk, class_fractions None and a
\* mask without any cell of 1, create_examples raises nothing and returns
\* None.
C22_EmptyMaskReturnsNone ==
    (/\ factory.pc = "done"
     /\ ~FrontFileMissing /\ ~PredictorFileMissing
     /\ factory.args.class_fractions = None
     /\ MaskWithoutCell) =>
        factory.raised = "none" /\ factory.value = None

(***************************************************************************)
(* Properties of downsized_generator_from_scratch                          *)
(***************************************************************************)
Refilling ==
    /\ generator.pc = "refill"
    /\ generator.num_times_in_memory < generator.num_times_needed_in_memory

FrontFileMissingAtCursor == Refilling /\ ~isfile(generator.disk, FrontFileAtCursor)

\* num_examples_per_batch, or num_times_per_batch of full grids.
BatchSizeAsked ==
    IF generator.kind = "full" THEN generator.args.num_times_per_batch
    ELSE generator.args.num_examples_per_batch

\* C23: in both generators from scratch, the pass of the refill loop that
\* finds the front file of the time at the cursor missing raises nothing,
\* moves the cursor by one position, from the last time to the first, and
\* leaves the full grids in memory as they are; and every batch yielded is
\* complete, of the size asked for.
C23_MissingFrontFileIsSkipped ==
    [][/\ FrontFileMissingAtCursor =>
            /\ generator'.pc = "refill"
            /\ generator'.raised = "none"
            /\ generator'.time_index = (generator.time_index + 1) % generator.num_times
            /\ generator'.full_size_target_matrix = generator.full_size_target_matrix
            /\ generator'.num_times_in_memory = generator.num_times_in_memory
            /\ generator'.num_yields = generator.num_yields
       /\ generator'.batch # None =>
            generator'.batch[1].num_examples = BatchSizeAsked]_vars

\* Of two times the one without front file was skipped, the cursor going
\* back to the first, and a batch was yielded.
C23_Witness ==
    /\ generator.pc = "yielded"
    /\ generator.num_times = 2
    /\ generator.num_skips >= 1
    /\ generator.time_index = 0
    /\ generator.batch # None
    /\ generator.raised = "none"

\* The inner loop has ended: the full grids needed for a batch are in memory.
BatchReady ==
    /\ generator.pc = "refill"
    /\ generator.kind = "scratch"
    /\ ~(generator.num_times_in_memory < generator.num_times_needed_in_memory)

\* What sample_target_points returns on the full grids in memory.
SampledAtCursor ==
    NumPointsSampled(
        CellsInMemory(generator.full_size_target_matrix[1], generator.cells,
                      generator.args.narr_mask_matrix, Len(generator.args.class_fractions)),
        generator.args.class_fractions, generator.args.num_examples_per_batch)

\* C24: when sample_target_points returns None on the full grids in memory,
\* the pull does not raise: the generator goes on refilling or yields.
C24_NullSampleIsSkipped ==
    [][(BatchReady /\ SampledAtCursor = None) => generator'.raised = "none"]_vars

\* The least number of times that hold num_examples_per_batch examples at
\* num_examples_per_time examples each.
IsCeilingOfRatio(n, a, b) == n * b >= a /\ (n - 1) * b < a

DownsizedRunning == generator.kind = "scratch" /\ generator.pc \in {"refill", "yielded"}

\* C26: in the downsized generator from scratch the full grids in memory are
\* never more than ceil(num_examples_per_batch / num_examples_per_time);
\* points are sampled, and a batch is yielded, only by a step that starts
\* with exactly that many in memory; and at every yield no full grid is
\* left in memory, so that the next pull refills from none.
C26_RefillSampleYieldCycle ==
    [][DownsizedRunning =>
        LET needed == generator.num_times_needed_in_memory
        IN  /\ IsCeilingOfRatio(needed, generator.args.num_examples_per_batch,
                                generator.args.num_examples_per_time)
            /\ generator.num_times_in_memory <= needed
            /\ generator'.num_times_in_memory <= needed
            /\ BatchReady => generator.num_times_in_memory = needed
            /\ generator'.num_yields # generator.num_yields =>
                    /\ BatchReady
                    /\ Len(generator.full_size_target_matrix[1]) = needed
                    /\ generator'.pc = "yielded"
            /\ generator'.pc = "yielded" =>
                    /\ generator'.full_size_target_matrix = None
                    /\ generator'.num_times_in_memory = 0
            /\ generator.pc = "yielded" =>
                    /\ generator'.pc = "refill"
                    /\ generator'.num_times_in_memory = 0
                    /\ generator'.full_size_target_matrix = None]_vars

\* A second batch was yielded, from two times read anew after the first.
C26_Witness ==
    /\ generator.kind = "scratch"
    /\ generator.pc = "yielded"
    /\ generator.num_yields = 2
    /\ generator.num_times_needed_in_memory = 2
    /\ Len(generator.batch[1].times) = 2
    /\ generator.num_times_in_memory = 0

\* The first pull has passed the checks of the arguments.
GeneratorStarted == generator.valid_times_unix_sec # <<>>

\* No time of the period has a front file.
NoFrontFileAtAll ==
    \A k \in 1..Len(generator.valid_times_unix_sec) :
        ~isfile(generator.disk,
                FindFile(generator.disk, "front", generator.valid_times_unix_sec[k], FALSE).value)

\* C27: when no time of the period has a front file, a pull neither yields
\* nor raises: the generator stays in the refill loop with no full grid in
\* memory, and its next step, always possible, moves the cursor by one
\* position around the times.
C27_NoFrontFileNeverYields ==
    [][(GeneratorStarted /\ NoFrontFileAtAll) =>
        /\ generator.pc = "refill"
        /\ generator.raised = "none"
        /\ generator.num_yields = 0
        /\ generator.batch = None
        /\ generator.full_size_target_matrix = None
        /\ generator.num_times_in_memory = 0
        /\ ENABLED SkipTime
        /\ generator'.pc = "refill"
        /\ generator'.raised = "none"
        /\ generator'.time_index = (generator.time_index + 1) % generator.num_times]_vars

\* Two times without front file: the cursor has gone round them all and is
\* at the second again.
C27_Witness ==
    /\ GeneratorStarted
    /\ NoFrontFileAtAll
    /\ generator.kind = "scratch"
    /\ generator.num_times = 2
    /\ generator.num_skips = 3
    /\ generator.time_index = 1
    /\ generator.pc = "refill"

(***************************************************************************)
(* Properties of downsized_generator_from_example_files                    *)
(***************************************************************************)
\* The inner loop is about to read the file at the cursor.
StoreReading ==
    /\ generator.pc = "refill"
    /\ generator.num_examples_in_memory < generator.args.num_examples_per_batch

\* C25: the read that takes the file cursor from the last file back to the
\* first is followed by a new shuffle of the file names.
C25_ReshuffledEveryPass ==
    [][(/\ StoreReading
        /\ generator.file_index + 1 = generator.num_files
        /\ generator'.pc # "raised")
            => generator'.num_shuffles = generator.num_shuffles + 1]_vars

\* The two sequences hold the same members, each as many times.
IsPermutationOf(a, b) ==
    /\ Len(a) = Len(b)
    /\ \A x \in Range(a) \cup Range(b) :
            Cardinality({i \in DOMAIN a : a[i] = x}) = Cardinality({i \in DOMAIN b : b[i] = x})

\* C28: a batch yielded from the store holds num_examples_per_batch
\* examples, which are the first num_examples_per_batch of those read into
\* memory during the pull, in some order; nothing else is left in memory,
\* and the next pull starts with no example in memory.
C28_BatchIsFirstExamplesRead ==
    [][/\ generator'.num_yields # generator.num_yields =>
            LET num_examples_per_batch == generator.args.num_examples_per_batch
                batch == generator'.batch[1]
            IN  /\ Len(batch.examples) = num_examples_per_batch
                /\ Len(batch.target_values) = num_examples_per_batch
                /\ IsPermutationOf(batch.examples,
                       SubSeq(generator.target_matrix[1], 1, num_examples_per_batch))
                /\ generator'.target_matrix = Some(batch.examples)
                /\ generator'.num_examples_in_memory = 0
       /\ generator.pc = "yielded" =>
            /\ generator'.target_matrix = None
            /\ generator'.num_examples_in_memory = 0]_vars

\* The only file holds 20 examples of the period: a second batch of 16 was
\* yielded, 4 examples having been dropped in each pull.
C28_Witness ==
    /\ generator.pc = "yielded"
    /\ generator.num_yields = 2
    /\ generator.example_file_names = <<BatchFile(0)>>
    /\ generator.args.first_time_unix_sec = 0
    /\ Len(generator.batch[1].examples) = MIN_EXAMPLES_PER_BATCH
    /\ generator.num_reads = 2

StoreStarted == generator.pc \in {"refill", "yielded"}

\* No file read by the generator holds an example of the period, the last
\* time of which is not before the first.
NoExampleInPeriod ==
    /\ generator.args.first_time_unix_sec <= generator.args.last_time_unix_sec
    /\ \A k \in DOMAIN generator.example_file_names :
         \A e \in Range(generator.store[generator.example_file_names[k]]) :
            \/ e.valid_time_unix_sec < generator.args.first_time_unix_sec
            \/ e.valid_time_unix_sec > generator.args.last_time_unix_sec

\* C29: the file cursor is at one of the files; a read that returns, None or
\* not, moves it by one position, from the last file to the first, and no
\* other step moves it; and when no file holds an example of the period, the
\* generator stays in the refill loop: it neither yields nor raises, and
\* there is always a next read.
C29_FileCursorCycles ==
    [][StoreStarted =>
        /\ generator.file_index \in 0..(generator.num_files - 1)
        /\ generator'.file_index \in 0..(generator.num_files - 1)
        /\ (StoreReading /\ generator'.pc # "raised") =>
                generator'.file_index = (generator.file_index + 1) % generator.num_files
        /\ ~StoreReading => generator'.file_index = generator.file_index
        /\ NoExampleInPeriod =>
                /\ StoreReading
                /\ generator.raised = "none"
                /\ generator.num_yields = 0
                /\ generator.batch = None
                /\ generator.num_examples_in_memory = 0
                /\ ENABLED ReadStoreFile
                /\ generator'.pc = "refill"
                /\ generator'.raised = "none"]_vars

\* Two files without any example of the period: three reads returned None,
\* and the cursor, back at the first file after the second, is at the second
\* again.
C29_Witness ==
    /\ StoreStarted
    /\ NoExampleInPeriod
    /\ generator.num_files = 2
    /\ generator.num_reads = 3
    /\ generator.file_index = 1
    /\ generator.num_yields = 0

(***************************************************************************)
(* Properties of read_specific_examples_many_files                         *)
(***************************************************************************)
ValidTimeOfId(example_id_string) == example_id_to_metadata(example_id_string).value[1]

\* The identifiers of the examples of the dictionary returned.
ReturnedIds ==
    LET example_dict == manyreader.value[1]
    IN  create_example_ids(example_dict[VALID_TIMES_KEY], example_dict[ROW_INDICES_KEY],
                           example_dict[COLUMN_INDICES_KEY])

IdsAtTime(example_id_strings, valid_time_unix_sec) ==
    SelectSeq(example_id_strings, LAMBDA id : ValidTimeOfId(id) = valid_time_unix_sec)

SortedByValidTime(example_id_strings) ==
    \A i, j \in DOMAIN example_id_strings :
        i < j => ValidTimeOfId(example_id_strings[i]) <= ValidTimeOfId(example_id_strings[j])

\* C30: the dictionary returned holds one example for each identifier
\* requested; the examples are in ascending order of valid time, those of one
\* valid time in the order of their identifiers in the request; each is the
\* stored example of its identifier; and the identifiers returned are the
\* request, place by place, exactly when the request is sorted by valid time.
C30_ManyFilesOrderedByTime ==
    manyreader.pc = "done" =>
        LET example_dict == manyreader.value[1]
            requested == manyreader.example_id_strings
        IN  /\ \A key \in Range(MAIN_KEYS) : Len(example_dict[key]) = Len(requested)
            /\ SortedByValidTime(ReturnedIds)
            /\ \A id \in Range(requested) :
                    IdsAtTime(ReturnedIds, ValidTimeOfId(id))
                        = IdsAtTime(requested, ValidTimeOfId(id))
            /\ \A k \in DOMAIN ReturnedIds :
                    \E e \in ExamplePool :
                        /\ ExampleIdOf(e) = ReturnedIds[k]
                        /\ example_dict[TARGET_MATRIX_KEY][k] = e[TARGET_MATRIX_KEY]
                        /\ example_dict[PREDICTOR_MATRIX_KEY][k]
                                = StoredRow(PREDICTOR_MATRIX_KEY, e[PREDICTOR_MATRIX_KEY])
            /\ (ReturnedIds = requested) <=> SortedByValidTime(requested)

\* The third example, the first and the second were requested, the first
\* being the earliest: the first, the third and the second are returned.
C30_Witness ==
    /\ manyreader.pc = "done"
    /\ manyreader.example_id_strings
            = <<ExampleIdOf(Example3), ExampleIdOf(Example1), ExampleIdOf(Example2)>>
    /\ ReturnedIds = <<ExampleIdOf(Example1), ExampleIdOf(Example3), ExampleIdOf(Example2)>>

====
